---- MODULE Spec2Model ----
(***************************************************************************)
(* Model of the EtherCAT control worker of motor_safe.py                   *)
(* (_ethercat_process_loop_safe), its command queue, the shared state      *)
(* block and the client side of EtherCATBusSafe / MotorSafe.               *)
(*                                                                         *)
(* Units.  Positions are encoder pulses (signed integers, as read from the *)
(* 32-bit PDO field).  Time is kept in whole milliseconds: the source uses *)
(* float seconds from time.monotonic(); durations are truncated to         *)
(* milliseconds, which is monotone and so preserves max() and equality of  *)
(* a shared value.  Millimetre payloads are whole millimetres.             *)
(***************************************************************************)
EXTENDS Integers, Sequences, FiniteSets, TLC

VARIABLES
    pc,                  \* position of the worker process
    client_pc,           \* position of the client inside EtherCATBusSafe.stop()
    command_queue,       \* mp.Queue of <<slave_idx, cmd, value>>
    local_motor_states,  \* per slave: target_pulse, offset, axis, trajectory
    slave_configs,       \* per slave: velocity / accel read before bootstrap
    is_running,
    sync_error_detected,
    trajectory_commands, \* MOVE_TO_MM commands accepted by the current drain
    input,               \* slave.input : statusword, actual position
    output,              \* slave.output: controlword, target position
    shared_states,       \* mp.Array, 5 entries per slave
    now,                 \* time.monotonic(), milliseconds
    ctrl_i,              \* loop index of the per-slave control step
    retry,               \* retry_count / op_retry / hold iteration
    reached_op,          \* the OP handshake has succeeded
    pd_sent,             \* controlword vectors sent by the shutdown sequence
    issued,              \* commands the clients have enqueued so far
    drained,             \* (slave_idx, cmd, value) last taken by get_nowait()
    aborted,             \* slaves whose emergency stop was logged this cycle
    net_state,           \* state last written with master.write_state()
    master,              \* "new" | "open" | "closed"
    reader,              \* a client inside MotorSafe.current_position_mm
    conv,                \* a position on its way through the unit conversions
    coupling,            \* cross-coupling configuration: gain (percent), enabled
    latched              \* per slave: the actual position observed at its last
                         \* abort, until a command for the slave is drained

vars == <<pc, client_pc, command_queue, local_motor_states, slave_configs,
          is_running, sync_error_detected, trajectory_commands, input, output,
          shared_states, now, ctrl_i, retry, reached_op, pd_sent, issued, drained,
          aborted, net_state, master, reader, conv, coupling, latched>>

----------------------------------------------------------------------------
(* Bounds of the model *)
MaxCommands == 2     \* commands the clients enqueue during a run
MaxCycles == 1       \* inter-cycle sleeps taken by the control loop

(* Configuration of the bus (constructor arguments) *)
NumSlaves == 2
CycleTimeMs == 2500
MaxSyncErrorMmTenths == 5      \* max_sync_error_mm = 0.5

Slaves == 0 .. (NumSlaves - 1)

(* Program constants *)
CW_SHUTDOWN == 6
CW_SWITCH_ON == 7
CW_ENABLE_OPERATION == 15
CW_DISABLE_VOLTAGE == 0
CW_FAULT_RESET == 128
PULSES_PER_REVOLUTION == 8388608
\* 2 * PULSES_PER_REVOLUTION / x_axis_mm_per_rev = 1398181.362858 pulses per mm
XPulsesPerMm == 1398181
XPulsesPerMmMicro == 362858
\* 2 * PULSES_PER_REVOLUTION / z_axis_mm_per_rev = 2796362.725720 pulses per mm
ZPulsesPerMm == 2796362
ZPulsesPerMmMicro == 725720
Million == 1000000
DefaultRpm == 60
CompletionTolerance == 50000
MinDurationMs == 100           \* max(..., 0.1) seconds
FallbackDurationMs == 1000     \* "else 1.0" seconds
MaxInitRetries == 3
MaxOpRetries == 3
HoldSends == 5
\* 60000 ms per minute / (2 * PULSES_PER_REVOLUTION) = 1875 / 524288
MsNum == 1875
MsDen == 524288

(* Inputs the environment and the clients can produce *)
ActualSet == {0, 2796362}
SW_OPERATION_ENABLED == 567       \* 0x0237
SW_FAULT == 536                   \* 0x0218
SW_SWITCH_ON_DISABLED == 592      \* 0x0250
StatusSet == {SW_OPERATION_ENABLED, SW_FAULT}
\* what one receive_processdata() can deliver: a statusword and an actual
\* position per slave
AllInputs == [Slaves -> [status : StatusSet, actual : ActualSet]]
MmSet == {0, 1}
RpmSet == {1}
AxisSet == {"x", "z"}

----------------------------------------------------------------------------
(* Helpers *)

Abs(a) == IF a < 0 THEN -a ELSE a

MaxOf(S) == CHOOSE m \in S : \A n \in S : n <= m

RECURSIVE BitAnd(_, _)
BitAnd(a, b) ==
    IF a = 0 \/ b = 0 THEN 0
    ELSE (a % 2) * (b % 2) + 2 * BitAnd(a \div 2, b \div 2)

\* int(revolutions * PULSES_PER_REVOLUTION * 2), revolutions = mm / mm_per_rev
MmToPulseRelative(mm, axis) ==
    LET whole == IF axis = "x" THEN XPulsesPerMm ELSE ZPulsesPerMm
        micro == IF axis = "x" THEN XPulsesPerMmMicro ELSE ZPulsesPerMmMicro
        mag == Abs(mm) * whole + (Abs(mm) * micro) \div Million
    IN IF mm >= 0 THEN mag ELSE -mag

\* max_sync_error_pulse = int((max_sync_error_mm / z_axis_mm_per_rev) * PPR * 2)
max_sync_error_pulse ==
    (MaxSyncErrorMmTenths * ZPulsesPerMm
       + (MaxSyncErrorMmTenths * ZPulsesPerMmMicro) \div Million) \div 10

\* duration = distance / velocity_pulse_per_sec if velocity_pulse_per_sec > 0 else 1.0
NaturalDurationMs(distance, rpm) ==
    IF rpm > 0
    THEN ((distance \div MsDen) * MsNum + ((distance % MsDen) * MsNum) \div MsDen) \div rpm
    ELSE FallbackDurationMs

----------------------------------------------------------------------------
(* Unit conversions on values of any size: naturals as sequences of limbs   *)
(* of four decimal digits, least significant first, without leading zeros   *)

Limb == 10000

\* the element of a one-element set; {f(v) : v \in {e}} evaluates e once
The(S) == CHOOSE v \in S : TRUE

RECURSIVE BigNormLimbs(_)
BigNormLimbs(a) ==
    IF a = <<>> THEN a
    ELSE IF a[Len(a)] = 0 THEN BigNormLimbs(SubSeq(a, 1, Len(a) - 1))
    ELSE a

BigNorm(a) == The({BigNormLimbs(x) : x \in {a}})

RECURSIVE BigOfInt(_)
BigOfInt(n) == IF n = 0 THEN <<>> ELSE <<n % Limb>> \o BigOfInt(n \div Limb)

BigHead(a) == IF a = <<>> THEN 0 ELSE Head(a)
BigTail(a) == IF a = <<>> THEN a ELSE Tail(a)

RECURSIVE BigAddCarry(_, _, _)
BigAddCarry(a, b, carry) ==
    IF a = <<>> /\ b = <<>>
    THEN (IF carry = 0 THEN <<>> ELSE <<carry>>)
    ELSE The({<<x % Limb>> \o BigAddCarry(BigTail(a), BigTail(b), x \div Limb) :
                x \in {BigHead(a) + BigHead(b) + carry}})

BigAdd(a, b) == The({BigAddCarry(x, y, 0) : x \in {a}, y \in {b}})

\* a - b for a >= b
RECURSIVE BigSubBorrow(_, _, _)
BigSubBorrow(a, b, borrow) ==
    IF a = <<>> THEN <<>>
    ELSE The({IF x < 0
              THEN <<x + Limb>> \o BigSubBorrow(Tail(a), BigTail(b), 1)
              ELSE <<x>> \o BigSubBorrow(Tail(a), BigTail(b), 0) :
                x \in {Head(a) - BigHead(b) - borrow}})

BigSub(a, b) == BigNorm(The({BigSubBorrow(x, y, 0) : x \in {a}, y \in {b}}))

RECURSIVE BigLessLimbs(_, _)
BigLessLimbs(a, b) ==
    IF Len(a) # Len(b) THEN Len(a) < Len(b)
    ELSE IF a = <<>> THEN FALSE
    ELSE IF a[Len(a)] # b[Len(b)] THEN a[Len(a)] < b[Len(b)]
    ELSE BigLessLimbs(SubSeq(a, 1, Len(a) - 1), SubSeq(b, 1, Len(b) - 1))

BigLess(a, b) == The({BigLessLimbs(x, y) : x \in {a}, y \in {b}})

BigAbsDiff(a, b) ==
    The({IF BigLess(x, y) THEN BigSub(y, x) ELSE BigSub(x, y) :
           x \in {a}, y \in {b}})

\* a * k for 0 <= k <= Limb
RECURSIVE BigMulCarry(_, _, _)
BigMulCarry(a, k, carry) ==
    IF a = <<>> THEN BigOfInt(carry)
    ELSE The({<<x % Limb>> \o BigMulCarry(Tail(a), k, x \div Limb) :
                x \in {Head(a) * k + carry}})

BigMulSmall(a, k) == BigNorm(The({BigMulCarry(x, k, 0) : x \in {a}}))

RECURSIVE BigMulLimbs(_, _)
BigMulLimbs(a, b) ==
    IF b = <<>> THEN <<>>
    ELSE The({BigNorm(BigAdd(BigMulSmall(a, Head(b)), <<0>> \o rest)) :
                rest \in {BigMulLimbs(a, Tail(b))}})

BigMul(a, b) == The({BigMulLimbs(x, y) : x \in {a}, y \in {b}})

\* one binary digit of a quotient: take k * d out of the remainder if it fits
BigDivBit(qr, d, k) ==
    The({IF BigLess(qr.r, kd)
         THEN qr
         ELSE [q |-> BigAdd(qr.q, <<k>>), r |-> BigSub(qr.r, kd)] :
           kd \in {BigMulSmall(d, k)}})

\* quotient and remainder of n by d > 0, four binary digits at a time
RECURSIVE BigDivModLimbs(_, _)
BigDivModLimbs(n, d) ==
    IF BigLess(n, d) THEN [q |-> <<>>, r |-> n]
    ELSE The({BigDivBit(BigDivBit(BigDivBit(BigDivBit(
                 [q |-> BigMulSmall(high.q, 16), r |-> high.r], d, 8), d, 4), d, 2), d, 1) :
                high \in {The({BigDivModLimbs(n, d16) :
                                 d16 \in {BigMulSmall(d, 16)}})}})

BigDivMod(n, d) == The({BigDivModLimbs(x, y) : x \in {n}, y \in {d}})

\* x_axis_mm_per_rev = 11.9993131404 and z_axis_mm_per_rev = 5.99965657019 in
\* units of 1e-11 mm
x_axis_mm_per_rev == <<4040, 3131, 1999, 1>>
z_axis_mm_per_rev == <<7019, 6565, 5999>>

mm_per_rev(axis) == IF axis = "x" THEN x_axis_mm_per_rev ELSE z_axis_mm_per_rev

\* a length of mm + micro / 1e6 millimetres in units of 1e-11 mm
MmUnits(mm, micro) ==
    LET micros == BigAdd(BigMulSmall(BigMulSmall(BigOfInt(mm), 1000), 1000),
                         BigOfInt(micro))
    IN BigMulSmall(BigMulSmall(micros, 1000), 100)

\* magnitude of "int(revolutions * PULSES_PER_REVOLUTION * 2)" with
\* revolutions = target_mm / mm_per_rev; int() truncates toward zero, so the
\* sign of target_mm carries over
target_pulse_relative(mm, micro, axis) ==
    BigDivMod(BigMul(MmUnits(mm, micro), BigOfInt(PULSES_PER_REVOLUTION * 2)),
              mm_per_rev(axis)).q

current_position_mm_SingleScale(relative_pos, axis) ==
    BigDivMod(BigMul(relative_pos, mm_per_rev(axis)),
              BigOfInt(PULSES_PER_REVOLUTION)).q

\* magnitude of "relative_pos / (PULSES_PER_REVOLUTION * 2) * mm_per_rev" in
\* units of 1e-11 mm, rounded down
current_position_mm(relative_pos, axis) ==
    BigDivMod(BigMul(relative_pos, mm_per_rev(axis)),
              BigOfInt(PULSES_PER_REVOLUTION * 2)).q

\* no slave is held at an abort position
NoLatch == [i \in Slaves |-> <<>>]

\* cross-coupling disabled, as on the bus without coupling
CouplingOff == [gain |-> 0, enabled |-> FALSE]

ConvIdle ==
    [pc |-> "idle", axis |-> "x", negative |-> FALSE, mm |-> 0, micro |-> 0,
     pulses |-> <<>>, pulses_negative |-> FALSE,
     position |-> <<>>, position_negative |-> FALSE]

ConvUnchanged ==
    UNCHANGED <<latched, coupling, reader, pc, client_pc, command_queue, local_motor_states,
                slave_configs, is_running, sync_error_detected,
                trajectory_commands, input, output, shared_states, now, ctrl_i,
                retry, reached_op, pd_sent, issued, drained, aborted, net_state,
                master>>

\* the send path applied to the position held in conv
ConvertToPulses ==
    /\ conv.pc = "target_mm"
    /\ conv' = [conv EXCEPT
                  !.pc = "pulses",
                  !.pulses = target_pulse_relative(conv.mm, conv.micro, conv.axis),
                  !.pulses_negative =
                      conv.negative
                      /\ target_pulse_relative(conv.mm, conv.micro, conv.axis) # <<>>]
    /\ ConvUnchanged

\* the read path applied to the pulses the send path produced, with a zero
\* offset
ConvertToMm ==
    /\ conv.pc = "pulses"
    /\ conv' = [conv EXCEPT
                  !.pc = "position",
                  !.position = current_position_mm(conv.pulses, conv.axis),
                  !.position_negative =
                      conv.pulses_negative
                      /\ current_position_mm(conv.pulses, conv.axis) # <<>>]
    /\ ConvUnchanged

----------------------------------------------------------------------------
(* State after EtherCATBusSafe.__init__ and the first lines of the worker *)

NoTrajectory == <<>>
HasTrajectory(st) == st.trajectory # NoTrajectory
Traj(st) == st.trajectory[1]

\* no property read in progress
ReaderIdle ==
    [pc |-> "idle", index |-> 0, current_pos |-> 0, offset |-> 0,
     offset_before |-> 0, current_pos_after |-> 0]

InitMotorState ==
    [target_pulse |-> 0, offset |-> 0, axis |-> "x", trajectory |-> NoTrajectory]

Init ==
    /\ pc = "not_started"
    /\ client_pc = "idle"
    /\ command_queue = <<>>
    /\ local_motor_states = [i \in Slaves |-> InitMotorState]
    /\ slave_configs = [i \in Slaves |-> [velocity |-> <<>>, accel |-> <<>>]]
    /\ is_running = TRUE
    /\ sync_error_detected = FALSE
    /\ trajectory_commands = <<>>
    /\ input = [i \in Slaves |-> [status |-> 0, actual |-> 0]]
    /\ output = [i \in Slaves |-> [cw |-> 0, target |-> 0]]
    /\ shared_states = [k \in 0 .. (NumSlaves * 5 - 1) |-> 0]
    /\ now = 0
    /\ ctrl_i = 0
    /\ retry = 0
    /\ reached_op = FALSE
    /\ pd_sent = <<>>
    /\ issued = 0
    /\ drained = <<>>
    /\ aborted = {}
    /\ net_state = "none"
    /\ master = "new"
    /\ reader = ReaderIdle
    /\ conv = ConvIdle
    /\ coupling = CouplingOff
    /\ latched = NoLatch

----------------------------------------------------------------------------
(* Client side: EtherCATBusSafe and MotorSafe methods *)

\* The worker looks at the queue only in its drain loops, so a put made while
\* the worker is between two drains is represented by a put made during the
\* sleep that precedes the next drain.
QueueWatched == pc \in {"not_started", "init_drain", "drain", "sleep"}

Put(slave_idx, cmd, value) ==
    /\ issued < MaxCommands
    /\ QueueWatched
    /\ issued' = issued + 1
    /\ command_queue' = Append(command_queue,
                               [slave |-> slave_idx, cmd |-> cmd, value |-> value])

ClientUnchanged ==
    UNCHANGED <<latched, coupling, conv, reader, pc, client_pc, local_motor_states, slave_configs, is_running,
                sync_error_detected, trajectory_commands, input, output,
                shared_states, now, ctrl_i, retry, reached_op, pd_sent, master,
                   drained, aborted, net_state>>

set_axis(i, axis) == Put(i, "SET_AXIS", axis) /\ ClientUnchanged

set_origin(i) == Put(i, "SET_ORIGIN", 0) /\ ClientUnchanged

set_profile_velocity(i, rpm) == Put(i, "SET_VELOCITY", rpm) /\ ClientUnchanged

set_profile_accel_decel(i, rpm_per_sec) ==
    Put(i, "SET_ACCEL", rpm_per_sec) /\ ClientUnchanged

move_to_position_mm(i, mm) == Put(i, "MOVE_TO_MM", mm) /\ ClientUnchanged

reset_sync_error == Put(-1, "RESET_SYNC_ERROR", 0) /\ ClientUnchanged

ReaderUnchanged ==
    UNCHANGED <<latched, coupling, conv, pc, client_pc, command_queue, local_motor_states, slave_configs,
                is_running, sync_error_detected, trajectory_commands, input,
                output, shared_states, now, ctrl_i, retry, reached_op, pd_sent,
                issued, drained, aborted, net_state, master>>

\* MotorSafe.current_position_mm, first read, taken without the lock:
\* "current_pos = self._shared_states[base_idx + 2]".  offset_before records
\* the offset that is published at this moment
current_position_mm_read_pos(i) ==
    /\ reader.pc \in {"idle", "done"}
    /\ reader' = [pc |-> "read_offset", index |-> i,
                  current_pos |-> shared_states[i * 5 + 2], offset |-> 0,
                  offset_before |-> shared_states[i * 5 + 3],
                  current_pos_after |-> 0]
    /\ ReaderUnchanged

\* second read: "offset = self._shared_states[base_idx + 3]"; the property
\* returns (current_pos - offset) scaled to millimetres.  current_pos_after
\* records the position that is published at this moment
current_position_mm_read_offset ==
    /\ reader.pc = "read_offset"
    /\ reader' = [reader EXCEPT
                    !.pc = "done",
                    !.offset = shared_states[reader.index * 5 + 3],
                    !.current_pos_after = shared_states[reader.index * 5 + 2]]
    /\ ReaderUnchanged

\* what the public properties of EtherCATBusSafe and MotorSafe read: the entries
\* of the shared block (status_word, is_moving, current_position_pulse,
\* offset_pulse, has_sync_error); start() returns nothing
ClientReadable == shared_states

\* EtherCATBusSafe.has_sync_error: "return self._shared_states[4] != 0"
EtherCATBusSafe_has_sync_error == shared_states[4] # 0

\* MotorSafe.has_sync_error: "return self._shared_states[self._index * 5 + 4] != 0"
MotorSafe_has_sync_error(index) == shared_states[index * 5 + 4] # 0

ProcessAlive == pc \notin {"not_started", "exited", "terminated"}

start ==
    /\ pc = "not_started"
    /\ pc' = "init_drain"
    /\ UNCHANGED <<latched, coupling, conv, reader, client_pc, command_queue, local_motor_states, slave_configs,
                   is_running, sync_error_detected, trajectory_commands, input,
                   output, shared_states, now, ctrl_i, retry, reached_op,
                   pd_sent, master, issued,
                   drained, aborted, net_state>>

\* stop(): if the process is alive, enqueue STOP_ALL and join(timeout=2)
stop ==
    /\ client_pc = "idle"
    /\ IF ProcessAlive
       THEN /\ command_queue' =
                   Append(command_queue, [slave |-> -1, cmd |-> "STOP_ALL", value |-> 0])
            /\ client_pc' = "joining"
       ELSE /\ client_pc' = "stopped"
            /\ UNCHANGED command_queue
    /\ UNCHANGED <<latched, coupling, conv, reader, pc, local_motor_states, slave_configs, is_running,
                   sync_error_detected, trajectory_commands, input, output,
                   shared_states, now, ctrl_i, retry, reached_op, pd_sent, master, issued,
                   drained, aborted, net_state>>

\* join(timeout=2) returns: the worker has exited, or the timeout expired with
\* the worker still alive; then self._process.terminate() sends SIGTERM and
\* stop() returns without waiting for the worker to die
stop_join ==
    /\ client_pc = "joining"
    /\ client_pc' = IF ProcessAlive THEN "terminate_sent" ELSE "stopped"
    /\ UNCHANGED <<latched, coupling, conv, reader, pc, command_queue, local_motor_states, slave_configs,
                   is_running, sync_error_detected, trajectory_commands, input,
                   output, shared_states, now, ctrl_i, retry, reached_op, pd_sent,
                   master, issued, drained, aborted, net_state>>

\* the signal sent by terminate() reaches the worker: the process dies where
\* it is and its finally block does not run
terminate ==
    /\ client_pc = "terminate_sent"
    /\ client_pc' = "stopped"
    /\ pc' = IF ProcessAlive THEN "terminated" ELSE pc
    /\ UNCHANGED <<latched, coupling, conv, reader, command_queue, local_motor_states, slave_configs,
                   is_running, sync_error_detected, trajectory_commands, input,
                   output, shared_states, now, ctrl_i, retry, reached_op, pd_sent,
                   master, issued, drained, aborted, net_state>>

----------------------------------------------------------------------------
(* Worker: pre-bootstrap drain and bootstrap *)

InitDrainCommand_HonorsStop ==
    /\ pc = "init_drain"
    /\ command_queue # <<>>
    /\ LET c == Head(command_queue) IN
         /\ slave_configs' =
              IF c.cmd = "SET_VELOCITY"
              THEN [slave_configs EXCEPT ![c.slave].velocity = <<c.value>>]
              ELSE IF c.cmd = "SET_ACCEL"
              THEN [slave_configs EXCEPT ![c.slave].accel = <<c.value>>]
              ELSE slave_configs
         /\ local_motor_states' =
              IF c.cmd = "SET_AXIS"
              THEN [local_motor_states EXCEPT ![c.slave].axis = c.value]
              ELSE local_motor_states
         /\ is_running' = (c.cmd # "STOP_ALL")
    /\ command_queue' = Tail(command_queue)
    /\ UNCHANGED <<latched, coupling, conv, reader, pc, client_pc, sync_error_detected,
                   trajectory_commands, input, output, shared_states, now,
                   ctrl_i, retry, reached_op, pd_sent, master, issued,
                   drained, aborted, net_state>>

\* "while not command_queue.empty()" before the EtherCAT initialisation
InitDrainCommand ==
    /\ pc = "init_drain"
    /\ command_queue # <<>>
    /\ LET c == Head(command_queue) IN
         /\ slave_configs' =
              IF c.cmd = "SET_VELOCITY"
              THEN [slave_configs EXCEPT ![c.slave].velocity = <<c.value>>]
              ELSE IF c.cmd = "SET_ACCEL"
              THEN [slave_configs EXCEPT ![c.slave].accel = <<c.value>>]
              ELSE slave_configs
         /\ local_motor_states' =
              IF c.cmd = "SET_AXIS"
              THEN [local_motor_states EXCEPT ![c.slave].axis = c.value]
              ELSE local_motor_states
    /\ command_queue' = Tail(command_queue)
    /\ UNCHANGED <<latched, coupling, conv, reader, pc, client_pc, is_running, sync_error_detected,
                   trajectory_commands, input, output, shared_states, now,
                   ctrl_i, retry, reached_op, pd_sent, master, issued,
                   drained, aborted, net_state>>

InitDrainDone ==
    /\ pc = "init_drain"
    /\ command_queue = <<>>
    /\ pc' = "ec_init"
    /\ retry' = 0
    /\ UNCHANGED <<latched, coupling, conv, reader, client_pc, command_queue, local_motor_states, slave_configs,
                   is_running, sync_error_detected, trajectory_commands, input,
                   output, shared_states, now, ctrl_i, reached_op, pd_sent, master, issued,
                   drained, aborted, net_state>>

\* one pass of "for retry_count in range(max_init_retries)": open the adapter,
\* enumerate the slaves, write the SDOs, map the PDOs; the outcome is the
\* environment's
EtherCATInit ==
    /\ pc = "ec_init"
    /\ \E ok \in BOOLEAN :
         IF ok
         THEN /\ master' = "open"
              /\ pc' = "op_transition"
              /\ retry' = 0
         ELSE IF retry < MaxInitRetries - 1
         THEN /\ retry' = retry + 1
              /\ master' = "new"
              /\ pc' = pc
         ELSE /\ master' = "closed"
              /\ pc' = "exited"
              /\ retry' = retry
    /\ UNCHANGED <<latched, coupling, conv, reader, client_pc, command_queue, local_motor_states, slave_configs,
                   is_running, sync_error_detected, trajectory_commands, input,
                   output, shared_states, now, ctrl_i, reached_op, pd_sent, issued,
                   drained, aborted, net_state>>

OpTransition_NoRaise(Inputs) ==
    /\ pc = "op_transition"
    /\ net_state' = "OP"
    /\ \E ok \in BOOLEAN :
         IF ok
         THEN /\ \E inp \in Inputs :
                   /\ input' = inp
                   /\ local_motor_states' =
                        [i \in Slaves |->
                           [local_motor_states[i] EXCEPT !.target_pulse = inp[i].actual]]
              /\ reached_op' = TRUE
              /\ pc' = "drain"
              /\ retry' = 0
         ELSE /\ UNCHANGED <<input, local_motor_states, reached_op>>
              /\ IF retry < MaxOpRetries - 1
                 THEN retry' = retry + 1 /\ pc' = pc
                 ELSE retry' = 0 /\ pc' = "drain"
    /\ UNCHANGED <<latched, coupling, conv, reader, client_pc, command_queue, slave_configs, is_running,
                   sync_error_detected, trajectory_commands, output,
                   shared_states, now, ctrl_i, pd_sent, master, issued,
                   drained, aborted>>

OpTransition_NoSeed(Inputs) ==
    /\ pc = "op_transition"
    /\ net_state' = "OP"
    /\ \E ok \in BOOLEAN :
         IF ok
         THEN /\ \E inp \in Inputs : input' = inp
              /\ UNCHANGED local_motor_states
              /\ reached_op' = TRUE
              /\ pc' = "drain"
              /\ retry' = 0
         ELSE /\ UNCHANGED <<input, local_motor_states, reached_op>>
              /\ IF retry < MaxOpRetries - 1
                 THEN retry' = retry + 1 /\ pc' = pc
                 ELSE retry' = retry /\ pc' = "finally"
    /\ UNCHANGED <<latched, coupling, conv, reader, client_pc, command_queue, slave_configs, is_running,
                   sync_error_detected, trajectory_commands, output,
                   shared_states, now, ctrl_i, pd_sent, master, issued,
                   drained, aborted>>

\* one pass of "for op_retry in range(max_op_retries)": request OP, poll up to
\* 4 s; on success seed every target_pulse with the actual position
OpTransition(Inputs) ==
    /\ pc = "op_transition"
    /\ net_state' = "OP"
    /\ \E ok \in BOOLEAN :
         IF ok
         THEN /\ \E inp \in Inputs :
                   /\ input' = inp
                   /\ local_motor_states' =
                        [i \in Slaves |->
                           [local_motor_states[i] EXCEPT !.target_pulse = inp[i].actual]]
              /\ reached_op' = TRUE
              /\ pc' = "drain"
              /\ retry' = 0
         ELSE /\ UNCHANGED <<input, local_motor_states, reached_op>>
              /\ IF retry < MaxOpRetries - 1
                 THEN retry' = retry + 1 /\ pc' = pc
                 ELSE retry' = retry /\ pc' = "finally"
    /\ UNCHANGED <<latched, coupling, conv, reader, client_pc, command_queue, slave_configs, is_running,
                   sync_error_detected, trajectory_commands, output,
                   shared_states, now, ctrl_i, pd_sent, master, issued,
                   drained, aborted>>

----------------------------------------------------------------------------
(* Worker: one cycle of the main control loop *)

ClearsSyncError_AlsoSetAxis(cmd) ==
    cmd \in {"SET_ORIGIN", "RESET_SYNC_ERROR", "SET_AXIS"}

ClearsSyncError_OnlySetOrigin(cmd) == cmd = "SET_ORIGIN"

\* the branches of the drain that end with "sync_error_detected = False"
ClearsSyncError(cmd) == cmd \in {"SET_ORIGIN", "RESET_SYNC_ERROR"}

AcceptsMove_Ungated(cmd, sync_error) == cmd = "MOVE_TO_MM"

\* the MOVE_TO_MM branch: "if sync_error_detected: (ignored) else: append"
AcceptsMove(cmd, sync_error) == cmd = "MOVE_TO_MM" /\ ~sync_error

DrainCommand_OffsetAdded ==
    /\ pc = "drain"
    /\ is_running
    /\ command_queue # <<>>
    /\ LET c == Head(command_queue) IN
         /\ is_running' = (c.cmd # "STOP_ALL")
         /\ local_motor_states' =
              IF c.cmd = "SET_AXIS"
              THEN [local_motor_states EXCEPT ![c.slave].axis = c.value]
              ELSE IF c.cmd = "SET_ORIGIN"
              THEN [local_motor_states EXCEPT
                      ![c.slave].offset = @ + input[c.slave].actual,
                      ![c.slave].target_pulse = input[c.slave].actual]
              ELSE local_motor_states
         /\ sync_error_detected' =
              IF ClearsSyncError(c.cmd) THEN FALSE ELSE sync_error_detected
         /\ trajectory_commands' =
              IF AcceptsMove(c.cmd, sync_error_detected)
              THEN Append(trajectory_commands, [slave |-> c.slave, mm |-> c.value])
              ELSE trajectory_commands
    /\ command_queue' = Tail(command_queue)
    /\ drained' = <<Head(command_queue)>>
    /\ latched' = [i \in Slaves |->
                     IF i = Head(command_queue).slave THEN <<>> ELSE latched[i]]
    /\ UNCHANGED <<coupling, conv, reader, pc, client_pc, slave_configs, input, output, shared_states,
                   now, ctrl_i, retry, reached_op, pd_sent, master, issued, aborted, net_state>>

DrainCommand_OriginCancels ==
    /\ pc = "drain"
    /\ is_running
    /\ command_queue # <<>>
    /\ LET c == Head(command_queue) IN
         /\ is_running' = (c.cmd # "STOP_ALL")
         /\ local_motor_states' =
              IF c.cmd = "SET_AXIS"
              THEN [local_motor_states EXCEPT ![c.slave].axis = c.value]
              ELSE IF c.cmd = "SET_ORIGIN"
              THEN [local_motor_states EXCEPT
                      ![c.slave].offset = input[c.slave].actual,
                      ![c.slave].target_pulse = input[c.slave].actual,
                      ![c.slave].trajectory = NoTrajectory]
              ELSE local_motor_states
         /\ sync_error_detected' =
              IF ClearsSyncError(c.cmd) THEN FALSE ELSE sync_error_detected
         /\ trajectory_commands' =
              IF AcceptsMove(c.cmd, sync_error_detected)
              THEN Append(trajectory_commands, [slave |-> c.slave, mm |-> c.value])
              ELSE trajectory_commands
    /\ command_queue' = Tail(command_queue)
    /\ drained' = <<Head(command_queue)>>
    /\ latched' = [i \in Slaves |->
                     IF i = Head(command_queue).slave THEN <<>> ELSE latched[i]]
    /\ UNCHANGED <<coupling, conv, reader, pc, client_pc, slave_configs, input, output, shared_states,
                   now, ctrl_i, retry, reached_op, pd_sent, master, issued, aborted, net_state>>

DrainCommand_DefersGatedMove ==
    /\ pc = "drain"
    /\ is_running
    /\ command_queue # <<>>
    /\ LET c == Head(command_queue) IN
         /\ is_running' = (c.cmd # "STOP_ALL")
         /\ local_motor_states' =
              IF c.cmd = "SET_AXIS"
              THEN [local_motor_states EXCEPT ![c.slave].axis = c.value]
              ELSE IF c.cmd = "SET_ORIGIN"
              THEN [local_motor_states EXCEPT
                      ![c.slave].offset = input[c.slave].actual,
                      ![c.slave].target_pulse = input[c.slave].actual]
              ELSE local_motor_states
         /\ sync_error_detected' =
              IF ClearsSyncError(c.cmd) THEN FALSE ELSE sync_error_detected
         /\ trajectory_commands' =
              IF AcceptsMove(c.cmd, sync_error_detected)
              THEN Append(trajectory_commands, [slave |-> c.slave, mm |-> c.value])
              ELSE trajectory_commands
    /\ command_queue' =
         IF Head(command_queue).cmd = "MOVE_TO_MM" /\ sync_error_detected
         THEN Append(Tail(command_queue), Head(command_queue))
         ELSE Tail(command_queue)
    /\ drained' = <<Head(command_queue)>>
    /\ latched' = [i \in Slaves |->
                     IF i = Head(command_queue).slave THEN <<>> ELSE latched[i]]
    /\ UNCHANGED <<coupling, conv, reader, pc, client_pc, slave_configs, input, output, shared_states,
                   now, ctrl_i, retry, reached_op, pd_sent, master, issued, aborted, net_state>>

\* body of "while not command_queue.empty()": one command
DrainCommand ==
    /\ pc = "drain"
    /\ is_running
    /\ command_queue # <<>>
    /\ LET c == Head(command_queue) IN
         /\ is_running' = (c.cmd # "STOP_ALL")
         /\ local_motor_states' =
              IF c.cmd = "SET_AXIS"
              THEN [local_motor_states EXCEPT ![c.slave].axis = c.value]
              ELSE IF c.cmd = "SET_ORIGIN"
              THEN [local_motor_states EXCEPT
                      ![c.slave].offset = input[c.slave].actual,
                      ![c.slave].target_pulse = input[c.slave].actual]
              ELSE local_motor_states
         /\ sync_error_detected' =
              IF ClearsSyncError(c.cmd) THEN FALSE ELSE sync_error_detected
         /\ trajectory_commands' =
              IF AcceptsMove(c.cmd, sync_error_detected)
              THEN Append(trajectory_commands, [slave |-> c.slave, mm |-> c.value])
              ELSE trajectory_commands
    /\ command_queue' = Tail(command_queue)
    /\ drained' = <<Head(command_queue)>>
    /\ latched' = [i \in Slaves |->
                     IF i = Head(command_queue).slave THEN <<>> ELSE latched[i]]
    /\ UNCHANGED <<coupling, conv, reader, pc, client_pc, slave_configs, input, output, shared_states,
                   now, ctrl_i, retry, reached_op, pd_sent, master, issued, aborted, net_state>>

\* one entry of trajectory_data with the origin offset left out of the target
TrajectoryData_NoOffset(c) ==
    LET state == local_motor_states[c.slave]
        target_pulse_absolute == MmToPulseRelative(c.mm, state.axis)
        current_pos == input[c.slave].actual
        distance == Abs(target_pulse_absolute - current_pos)
        cfg == slave_configs[c.slave].velocity
        configured_velocity == IF cfg = <<>> THEN DefaultRpm ELSE cfg[1]
    IN [slave_idx |-> c.slave,
        current_pos |-> current_pos,
        target_pos |-> target_pulse_absolute,
        duration |-> NaturalDurationMs(distance, configured_velocity)]

\* one entry of trajectory_data
TrajectoryData(c) ==
    LET state == local_motor_states[c.slave]
        target_pulse_absolute == MmToPulseRelative(c.mm, state.axis) + state.offset
        current_pos == input[c.slave].actual
        distance == Abs(target_pulse_absolute - current_pos)
        cfg == slave_configs[c.slave].velocity
        configured_velocity == IF cfg = <<>> THEN DefaultRpm ELSE cfg[1]
    IN [slave_idx |-> c.slave,
        current_pos |-> current_pos,
        target_pos |-> target_pulse_absolute,
        duration |-> NaturalDurationMs(distance, configured_velocity)]

MaxDuration_FirstOnly(trajectory_data) ==
    MaxOf({trajectory_data[1].duration, MinDurationMs})

\* max(max(traj['duration'] for traj in trajectory_data), 0.1)
MaxDuration(trajectory_data) ==
    MaxOf({trajectory_data[k].duration : k \in DOMAIN trajectory_data}
          \cup {MinDurationMs})

RECURSIVE InstallTrajectories_KeepsOld(_, _, _, _)
InstallTrajectories_KeepsOld(states, trajectory_data, max_duration, common_start_time) ==
    IF trajectory_data = <<>> THEN states
    ELSE LET t == Head(trajectory_data) IN
         InstallTrajectories_KeepsOld(
            IF HasTrajectory(states[t.slave_idx]) THEN states
            ELSE [states EXCEPT ![t.slave_idx].trajectory =
                    <<[start |-> t.current_pos, end |-> t.target_pos,
                       duration |-> max_duration, start_time |-> common_start_time]>>],
            Tail(trajectory_data), max_duration, common_start_time)

\* the trajectory a slave holds after "for traj_info in trajectory_data":
\* the last entry for the slave wins
RECURSIVE InstallTrajectories(_, _, _, _)
InstallTrajectories(states, trajectory_data, max_duration, common_start_time) ==
    IF trajectory_data = <<>> THEN states
    ELSE LET t == Head(trajectory_data) IN
         InstallTrajectories(
            [states EXCEPT ![t.slave_idx].trajectory =
                <<[start |-> t.current_pos, end |-> t.target_pos,
                   duration |-> max_duration, start_time |-> common_start_time]>>],
            Tail(trajectory_data), max_duration, common_start_time)

TrajectoryProcessing_IgnoresStop ==
    /\ pc = "drain"
    /\ command_queue = <<>> \/ ~is_running
    /\ IF trajectory_commands # <<>> /\ ~sync_error_detected
       THEN LET trajectory_data ==
                    [k \in DOMAIN trajectory_commands |->
                        TrajectoryData(trajectory_commands[k])]
            IN local_motor_states' =
                 InstallTrajectories(local_motor_states, trajectory_data,
                                     MaxDuration(trajectory_data), now)
       ELSE UNCHANGED local_motor_states
    /\ trajectory_commands' = <<>>
    /\ drained' = <<>>
    /\ pc' = "pdo"
    /\ UNCHANGED <<latched, coupling, conv, reader, client_pc, command_queue, slave_configs, is_running,
                   sync_error_detected, input, output, shared_states, now,
                   ctrl_i, retry, reached_op, pd_sent, master, issued, aborted, net_state>>

\* "if trajectory_commands and not sync_error_detected: ..." followed by
\* "if not is_running: break"; runs when the drain loop has ended
TrajectoryProcessing ==
    /\ pc = "drain"
    /\ command_queue = <<>> \/ ~is_running
    /\ IF trajectory_commands # <<>> /\ ~sync_error_detected
       THEN LET trajectory_data ==
                    [k \in DOMAIN trajectory_commands |->
                        TrajectoryData(trajectory_commands[k])]
            IN local_motor_states' =
                 InstallTrajectories(local_motor_states, trajectory_data,
                                     MaxDuration(trajectory_data), now)
       ELSE UNCHANGED local_motor_states
    /\ trajectory_commands' = <<>>
    /\ drained' = <<>>
    /\ pc' = IF is_running THEN "pdo" ELSE "finally"
    /\ UNCHANGED <<latched, coupling, conv, reader, client_pc, command_queue, slave_configs, is_running,
                   sync_error_detected, input, output, shared_states, now,
                   ctrl_i, retry, reached_op, pd_sent, master, issued, aborted, net_state>>

ProcessData_Repeats(Inputs) ==
    /\ pc = "pdo"
    /\ \E inp \in Inputs : input' = inp
    /\ pc' \in {"pdo", "sync_check"}
    /\ UNCHANGED <<latched, coupling, conv, reader, client_pc, command_queue, local_motor_states, slave_configs,
                   is_running, sync_error_detected, trajectory_commands, output,
                   shared_states, now, ctrl_i, retry, reached_op, pd_sent, master, issued,
                   drained, aborted, net_state>>

\* master.send_processdata(); master.receive_processdata(): the drives answer
\* with a statusword and an actual position of their own
ProcessData(Inputs) ==
    /\ pc = "pdo"
    /\ \E inp \in Inputs : input' = inp
    /\ pc' = "sync_check"
    /\ UNCHANGED <<latched, coupling, conv, reader, client_pc, command_queue, local_motor_states, slave_configs,
                   is_running, sync_error_detected, trajectory_commands, output,
                   shared_states, now, ctrl_i, retry, reached_op, pd_sent, master, issued,
                   drained, aborted, net_state>>

AbortTrajectories_NoLatch(states, positions) ==
    [j \in Slaves |-> [states[j] EXCEPT !.trajectory = NoTrajectory]]

\* every active trajectory cleared, target latched to the given positions
AbortTrajectories(states, positions) ==
    [j \in Slaves |->
        IF HasTrajectory(states[j])
        THEN [states[j] EXCEPT !.trajectory = NoTrajectory,
                               !.target_pulse = positions[j]]
        ELSE states[j]]

Positions == [i \in Slaves |-> input[i].actual]

RelativePositions == [i \in Slaves |-> Positions[i] - local_motor_states[i].offset]

Moving == {i \in Slaves : HasTrajectory(local_motor_states[i])}

AnyMoving_NotConsulted == TRUE

AnyMoving == Moving # {}

\* the actual positions read in this cycle, noted for the slaves being aborted
LatchMoving ==
    [i \in Slaves |-> IF i \in Moving THEN <<input[i].actual>> ELSE latched[i]]

SyncErrorExceeded_RawPositions ==
    \E i \in 0 .. (NumSlaves - 2) :
        Abs(Positions[i] - Positions[i + 1]) > max_sync_error_pulse

\* "if position_diff > max_sync_error_pulse" for some adjacent pair
SyncErrorExceeded ==
    \E i \in 0 .. (NumSlaves - 2) :
        Abs(RelativePositions[i] - RelativePositions[i + 1]) > max_sync_error_pulse

SyncCheck_FlagOnly ==
    /\ pc = "sync_check"
    /\ IF NumSlaves >= 2 /\ ~sync_error_detected /\ AnyMoving /\ SyncErrorExceeded
       THEN /\ sync_error_detected' = TRUE
            /\ UNCHANGED <<local_motor_states, aborted, latched>>
       ELSE UNCHANGED <<sync_error_detected, local_motor_states, aborted, latched>>
    /\ pc' = "fault_check"
    /\ UNCHANGED <<coupling, conv, reader, client_pc, command_queue, slave_configs, is_running,
                   trajectory_commands, input, output, shared_states, now,
                   ctrl_i, retry, reached_op, pd_sent, master, issued,
                   drained, net_state>>

\* multi-axis position difference monitor
SyncCheck ==
    /\ pc = "sync_check"
    /\ IF NumSlaves >= 2 /\ ~sync_error_detected /\ AnyMoving /\ SyncErrorExceeded
       THEN /\ sync_error_detected' = TRUE
            /\ local_motor_states' = AbortTrajectories(local_motor_states, Positions)
            /\ aborted' = Moving
            /\ latched' = LatchMoving
       ELSE UNCHANGED <<sync_error_detected, local_motor_states, aborted, latched>>
    /\ pc' = "fault_check"
    /\ UNCHANGED <<coupling, conv, reader, client_pc, command_queue, slave_configs, is_running,
                   trajectory_commands, input, output, shared_states, now,
                   ctrl_i, retry, reached_op, pd_sent, master, issued,
                   drained, net_state>>

FaultBit(status) == BitAnd(status, 8) # 0

FaultDetected_FirstSlaveOnly ==
    FaultBit(input[0].status) /\ HasTrajectory(local_motor_states[0])

FaultDetected_AnyFault ==
    \E i \in Slaves : FaultBit(input[i].status)

\* "3. Fault check"
FaultDetected ==
    \E i \in Slaves : FaultBit(input[i].status) /\ HasTrajectory(local_motor_states[i])

FaultCheck_NoAbort ==
    /\ pc = "fault_check"
    /\ pc' = "control"
    /\ ctrl_i' = 0
    /\ UNCHANGED <<local_motor_states, aborted, latched,
                   coupling, conv, reader, client_pc, command_queue, slave_configs, is_running,
                   sync_error_detected, trajectory_commands, input, output,
                   shared_states, now, retry, reached_op, pd_sent, master, issued,
                   drained, net_state>>

FaultCheck ==
    /\ pc = "fault_check"
    /\ IF FaultDetected
       THEN /\ local_motor_states' = AbortTrajectories(local_motor_states, Positions)
            /\ aborted' = aborted \cup Moving
            /\ latched' = LatchMoving
       ELSE UNCHANGED <<local_motor_states, aborted, latched>>
    /\ pc' = "control"
    /\ ctrl_i' = 0
    /\ UNCHANGED <<coupling, conv, reader, client_pc, command_queue, slave_configs, is_running,
                   sync_error_detected, trajectory_commands, input, output,
                   shared_states, now, retry, reached_op, pd_sent, master, issued,
                   drained, net_state>>


ControlwordFor_NoSwitchOn(status) ==
    IF BitAnd(status, 79) = 64 THEN CW_SHUTDOWN
    ELSE IF BitAnd(status, 111) = 35 THEN CW_ENABLE_OPERATION
    ELSE IF BitAnd(status, 111) = 39 THEN CW_ENABLE_OPERATION
    ELSE IF BitAnd(status, 8) # 0 THEN CW_FAULT_RESET
    ELSE CW_ENABLE_OPERATION

ControlwordFor_SwitchedOnHeld(status) ==
    IF BitAnd(status, 79) = 64 THEN CW_SHUTDOWN
    ELSE IF BitAnd(status, 111) = 33 THEN CW_SWITCH_ON
    ELSE IF BitAnd(status, 111) = 35 THEN CW_SWITCH_ON
    ELSE IF BitAnd(status, 111) = 39 THEN CW_ENABLE_OPERATION
    ELSE IF BitAnd(status, 8) # 0 THEN CW_FAULT_RESET
    ELSE CW_ENABLE_OPERATION

ControlwordFor_NoFaultReset(status) ==
    IF BitAnd(status, 79) = 64 THEN CW_SHUTDOWN
    ELSE IF BitAnd(status, 111) = 33 THEN CW_SWITCH_ON
    ELSE CW_ENABLE_OPERATION

\* CiA 402 state machine of the per-slave control step (if / elif chain)
ControlwordFor(status) ==
    IF BitAnd(status, 79) = 64 THEN CW_SHUTDOWN
    ELSE IF BitAnd(status, 111) = 33 THEN CW_SWITCH_ON
    ELSE IF BitAnd(status, 111) = 35 THEN CW_ENABLE_OPERATION
    ELSE IF BitAnd(status, 111) = 39 THEN CW_ENABLE_OPERATION
    ELSE IF BitAnd(status, 8) # 0 THEN CW_FAULT_RESET
    ELSE CW_ENABLE_OPERATION

\* (1 - cos(pi * progress)) / 2 in units of 1/10000, progress in eighths
SmoothTable == <<0, 381, 1464, 3087, 5000, 6913, 8536, 9619, 10000>>

\* progress = min(elapsed / duration, 1.0), truncated to eighths
ProgressEighths(elapsed, duration) ==
    IF elapsed >= duration THEN 8 ELSE (elapsed * 8) \div duration

Interpolate_ProgressUncapped(traj, elapsed) ==
    LET smooth == IF elapsed >= traj.duration
                  THEN (elapsed * 10000) \div traj.duration
                  ELSE SmoothTable[ProgressEighths(elapsed, traj.duration) + 1]
        d == traj.end - traj.start
        q == d \div 10000
        r == d % 10000
        whole == traj.start + q * smooth + (r * smooth) \div 10000
        exact == (r * smooth) % 10000 = 0
    IN IF whole >= 0 \/ exact THEN whole ELSE whole + 1

\* int(start + (end - start) * smooth_progress)
Interpolate(traj, elapsed) ==
    LET smooth == SmoothTable[ProgressEighths(elapsed, traj.duration) + 1]
        d == traj.end - traj.start
        q == d \div 10000
        r == d % 10000
        whole == traj.start + q * smooth + (r * smooth) \div 10000
        exact == (r * smooth) % 10000 = 0
    IN IF whole >= 0 \/ exact THEN whole ELSE whole + 1

ControlStep_TimeCompletes(state, actual, time) ==
    IF ~HasTrajectory(state) THEN state
    ELSE IF \/ Abs(Traj(state).end - actual) < CompletionTolerance
            \/ time - Traj(state).start_time >= Traj(state).duration
    THEN [state EXCEPT !.target_pulse = Traj(state).end, !.trajectory = NoTrajectory]
    ELSE [state EXCEPT
            !.target_pulse = Interpolate(Traj(state), time - Traj(state).start_time)]

ControlStep_HoldsActual(state, actual, time) ==
    IF ~HasTrajectory(state) THEN [state EXCEPT !.target_pulse = actual]
    ELSE IF Abs(Traj(state).end - actual) < CompletionTolerance
    THEN [state EXCEPT !.target_pulse = Traj(state).end, !.trajectory = NoTrajectory]
    ELSE [state EXCEPT
            !.target_pulse = Interpolate(Traj(state), time - Traj(state).start_time)]

\* the slot of slave i after the trajectory branch of the control step
ControlStep(state, actual, time) ==
    IF ~HasTrajectory(state) THEN state
    ELSE IF Abs(Traj(state).end - actual) < CompletionTolerance
    THEN [state EXCEPT !.target_pulse = Traj(state).end, !.trajectory = NoTrajectory]
    ELSE [state EXCEPT
            !.target_pulse = Interpolate(Traj(state), time - Traj(state).start_time)]

Publish_OffsetNotWritten(shared, i, status, state, current_pos, sync_error) ==
    LET base_idx == i * 5 IN
    [k \in DOMAIN shared |->
        IF k = base_idx THEN status
        ELSE IF k = base_idx + 1 THEN (IF HasTrajectory(state) THEN 1 ELSE 0)
        ELSE IF k = base_idx + 2 THEN current_pos
        ELSE IF k = base_idx + 4 THEN (IF sync_error THEN 1 ELSE 0)
        ELSE shared[k]]

Publish_FlagForFirstSlaveOnly(shared, i, status, state, current_pos, sync_error) ==
    LET base_idx == i * 5 IN
    [k \in DOMAIN shared |->
        IF k = base_idx THEN status
        ELSE IF k = base_idx + 1 THEN (IF HasTrajectory(state) THEN 1 ELSE 0)
        ELSE IF k = base_idx + 2 THEN current_pos
        ELSE IF k = base_idx + 3 THEN state.offset
        ELSE IF k = base_idx + 4 /\ i = 0 THEN (IF sync_error THEN 1 ELSE 0)
        ELSE shared[k]]

\* "with lock:" block: the five published entries of slave i
Publish(shared, i, status, state, current_pos, sync_error) ==
    LET base_idx == i * 5 IN
    [k \in DOMAIN shared |->
        IF k = base_idx THEN status
        ELSE IF k = base_idx + 1 THEN (IF HasTrajectory(state) THEN 1 ELSE 0)
        ELSE IF k = base_idx + 2 THEN current_pos
        ELSE IF k = base_idx + 3 THEN state.offset
        ELSE IF k = base_idx + 4 THEN (IF sync_error THEN 1 ELSE 0)
        ELSE shared[k]]

\* "4. control of each slave" and "5. state sharing" for slave ctrl_i
Control ==
    /\ pc = "control"
    /\ LET i == ctrl_i
           status == input[i].status
           state == ControlStep(local_motor_states[i], input[i].actual, now)
       IN /\ local_motor_states' = [local_motor_states EXCEPT ![i] = state]
          /\ output' = [output EXCEPT
                          ![i] = [cw |-> ControlwordFor(status),
                                  target |-> state.target_pulse]]
          /\ shared_states' = Publish(shared_states, i, status, state,
                                      input[i].actual, sync_error_detected)
    /\ ctrl_i' = ctrl_i + 1
    /\ pc' = IF ctrl_i + 1 = NumSlaves THEN "sleep" ELSE "control"
    /\ UNCHANGED <<latched, coupling, conv, reader, client_pc, command_queue, slave_configs, is_running,
                   sync_error_detected, trajectory_commands, input, now, retry,
                   reached_op, pd_sent, master, issued,
                   drained, aborted, net_state>>

\* "6. keep the cycle time": sleep until the next deadline
SleepFor(cycles) ==
    /\ pc = "sleep"
    /\ now < cycles * CycleTimeMs
    /\ now' = now + CycleTimeMs
    /\ aborted' = {}
    /\ pc' = "drain"
    /\ UNCHANGED <<latched, coupling, conv, reader, client_pc, command_queue, local_motor_states, slave_configs,
                   is_running, sync_error_detected, trajectory_commands, input,
                   output, shared_states, ctrl_i, retry, reached_op, pd_sent,
                   master, issued,
                   drained, net_state>>

Sleep == SleepFor(MaxCycles)

LoopPositions == {"drain", "pdo", "sync_check", "fault_check", "control", "sleep"}

\* an exception raised inside the control loop is caught by
\* "except Exception" and leads to the finally block
LoopException ==
    /\ pc \in LoopPositions
    /\ pc' = "finally"
    /\ UNCHANGED <<latched, coupling, conv, reader, client_pc, command_queue, local_motor_states, slave_configs,
                   is_running, sync_error_detected, trajectory_commands, input,
                   output, shared_states, now, ctrl_i, retry, reached_op,
                   pd_sent, master, issued,
                   drained, aborted, net_state>>

----------------------------------------------------------------------------
(* Worker: the finally block, the staged power-down *)

HoldFrame_KeepsTarget(cw) == [i \in Slaves |-> [cw |-> cw, target |-> output[i].target]]

HoldFrame(cw) == [i \in Slaves |-> [cw |-> cw, target |-> input[i].actual]]

Controlwords(frames) == [i \in Slaves |-> frames[i].cw]

\* master.read_state(); the state of slave 0 is the environment's.  In OP every
\* slot is latched to its actual position and a hold frame is written
FinallyReadState ==
    /\ pc = "finally"
    /\ \E slave0_op \in BOOLEAN :
         IF slave0_op
         THEN /\ local_motor_states' =
                   [i \in Slaves |->
                      [local_motor_states[i] EXCEPT
                         !.trajectory = NoTrajectory,
                         !.target_pulse = input[i].actual]]
              /\ output' = HoldFrame(CW_ENABLE_OPERATION)
              /\ pc' = "pd_hold"
         ELSE /\ UNCHANGED <<local_motor_states, output>>
              /\ pc' = "close"
    /\ retry' = 0
    /\ UNCHANGED <<latched, coupling, conv, reader, client_pc, command_queue, slave_configs, is_running,
                   sync_error_detected, trajectory_commands, input,
                   shared_states, now, ctrl_i, reached_op, pd_sent, master, issued,
                   drained, aborted, net_state>>

\* "for _ in range(5): send_processdata(); receive_processdata()"
PowerDownHold(Inputs) ==
    /\ pc = "pd_hold"
    /\ pd_sent' = Append(pd_sent, Controlwords(output))
    /\ \E inp \in Inputs : input' = inp
    /\ retry' = retry + 1
    /\ pc' = IF retry + 1 = HoldSends THEN "pd_disable_operation" ELSE pc
    /\ UNCHANGED <<latched, coupling, conv, reader, client_pc, command_queue, local_motor_states, slave_configs,
                   is_running, sync_error_detected, trajectory_commands, output,
                   shared_states, now, ctrl_i, reached_op, master, issued,
                   drained, aborted, net_state>>

\* one stage: write the controlword with the actual position to every slave,
\* then send_processdata()
PowerDownStage(at, cw, next) ==
    /\ pc = at
    /\ output' = HoldFrame(cw)
    /\ pd_sent' = Append(pd_sent, Controlwords(HoldFrame(cw)))
    /\ pc' = next
    /\ UNCHANGED <<latched, coupling, conv, reader, client_pc, command_queue, local_motor_states, slave_configs,
                   is_running, sync_error_detected, trajectory_commands, input,
                   shared_states, now, ctrl_i, retry, reached_op, master, issued,
                   drained, aborted, net_state>>

PowerDownDisableOperation ==
    PowerDownStage("pd_disable_operation", CW_SWITCH_ON, "pd_shutdown")

PowerDownShutdown_Skipped ==
    PowerDownStage("pd_shutdown", CW_DISABLE_VOLTAGE, "pd_init")

PowerDownShutdown ==
    PowerDownStage("pd_shutdown", CW_SHUTDOWN, "pd_disable_voltage")

PowerDownDisableVoltage ==
    PowerDownStage("pd_disable_voltage", CW_DISABLE_VOLTAGE, "pd_init")

\* master.state = INIT_STATE; master.write_state()
PowerDownInit ==
    /\ pc = "pd_init"
    /\ net_state' = "INIT"
    /\ pc' = "close"
    /\ UNCHANGED <<latched, coupling, conv, reader, client_pc, command_queue, local_motor_states, slave_configs,
                   is_running, sync_error_detected, trajectory_commands, input,
                   output, shared_states, now, ctrl_i, retry, reached_op, pd_sent,
                   issued, drained, aborted, master>>

\* inner finally: master.close()
Close ==
    /\ pc = "close"
    /\ master' = "closed"
    /\ pc' = "exited"
    /\ UNCHANGED <<latched, coupling, conv, reader, client_pc, command_queue, local_motor_states, slave_configs,
                   is_running, sync_error_detected, trajectory_commands, input,
                   output, shared_states, now, ctrl_i, retry, reached_op, pd_sent, issued,
                   drained, aborted, net_state>>

----------------------------------------------------------------------------------------------------------------------------------------
(* The whole life of the worker, from construction of the bus to its exit,  *)
(* with drives that answer one of two input vectors                         *)

LifeInputs ==
    {[i \in Slaves |-> [status |-> SW_OPERATION_ENABLED, actual |-> 0]],
     [i \in Slaves |-> IF i = 0
                       THEN [status |-> SW_OPERATION_ENABLED, actual |-> 0]
                       ELSE [status |-> SW_FAULT, actual |-> 2796362]]}

Client ==
    \/ start
    \/ stop
    \/ stop_join
    \/ terminate
    \/ \E i \in Slaves :
         \/ \E rpm \in RpmSet : set_profile_velocity(i, rpm)
         \/ \E mm \in MmSet : move_to_position_mm(i, mm)

Worker ==
    \/ InitDrainCommand
    \/ InitDrainDone
    \/ EtherCATInit
    \/ OpTransition(LifeInputs)
    \/ DrainCommand
    \/ TrajectoryProcessing
    \/ ProcessData(LifeInputs)
    \/ SyncCheck
    \/ FaultCheck
    \/ Control
    \/ Sleep
    \/ LoopException
    \/ FinallyReadState
    \/ PowerDownHold(LifeInputs)
    \/ PowerDownDisableOperation
    \/ PowerDownShutdown
    \/ PowerDownDisableVoltage
    \/ PowerDownInit
    \/ Close

Next == Client \/ Worker

Spec == Init /\ [][Next]_vars

----------------------------------------------------------------------------
(* The control loop in steady state: from the state right after the OP      *)
(* handshake, every command of the client interface, every input            *)

InitLoop ==
    /\ pc = "drain"
    /\ client_pc = "idle"
    /\ command_queue = <<>>
    /\ \E inp \in AllInputs :
          /\ input = inp
          /\ local_motor_states =
               [i \in Slaves |->
                  [InitMotorState EXCEPT !.target_pulse = inp[i].actual]]
    /\ slave_configs = [i \in Slaves |-> [velocity |-> <<>>, accel |-> <<>>]]
    /\ is_running = TRUE
    /\ sync_error_detected = FALSE
    /\ trajectory_commands = <<>>
    /\ output = [i \in Slaves |-> [cw |-> 0, target |-> 0]]
    /\ shared_states = [k \in 0 .. (NumSlaves * 5 - 1) |-> 0]
    /\ now = 0
    /\ ctrl_i = 0
    /\ retry = 0
    /\ reached_op = TRUE
    /\ pd_sent = <<>>
    /\ issued = 0
    /\ drained = <<>>
    /\ aborted = {}
    /\ net_state = "OP"
    /\ master = "open"
    /\ reader = ReaderIdle
    /\ conv = ConvIdle
    /\ coupling = CouplingOff
    /\ latched = NoLatch

NextLoop ==
    \/ reset_sync_error
    \/ \E i \in Slaves :
         \/ set_origin(i)
         \/ \E axis \in AxisSet : set_axis(i, axis)
         \/ \E rpm \in RpmSet : set_profile_velocity(i, rpm)
         \/ \E rpm \in RpmSet : set_profile_accel_decel(i, rpm)
         \/ \E mm \in MmSet : move_to_position_mm(i, mm)
    \/ DrainCommand
    \/ TrajectoryProcessing
    \/ ProcessData(AllInputs)
    \/ SyncCheck
    \/ FaultCheck
    \/ Control
    \/ Sleep

SpecLoop == InitLoop /\ [][NextLoop]_vars

----------------------------------------------------------------------------
(* The safety pass and the per-slave control step on every 16-bit           *)
(* statusword: from the state right after a receive_processdata() in which  *)
(* slave 0 answered an arbitrary statusword, while holding, while moving,   *)
(* or with the sync-error flag set                                          *)

MaxStatusWord == 65535

InitDecode ==
    /\ pc = "sync_check"
    /\ client_pc = "idle"
    /\ command_queue = <<>>
    /\ \E sw \in 0 .. MaxStatusWord :
          input = [i \in Slaves |->
                     [status |-> IF i = 0 THEN sw ELSE SW_OPERATION_ENABLED,
                      actual |-> 0]]
    /\ \E situation \in {"holding", "moving", "sync_error"} :
          /\ local_motor_states =
               [i \in Slaves |->
                  [target_pulse |-> 0, offset |-> 0, axis |-> "z",
                   trajectory |->
                      IF situation = "moving"
                      THEN <<[start |-> 0, end |-> MmToPulseRelative(1, "z"),
                              duration |-> NaturalDurationMs(
                                              MmToPulseRelative(1, "z"), DefaultRpm),
                              start_time |-> 0]>>
                      ELSE NoTrajectory]]
          /\ sync_error_detected = (situation = "sync_error")
    /\ slave_configs = [i \in Slaves |-> [velocity |-> <<>>, accel |-> <<>>]]
    /\ is_running = TRUE
    /\ trajectory_commands = <<>>
    /\ output = [i \in Slaves |-> [cw |-> CW_ENABLE_OPERATION, target |-> 0]]
    /\ shared_states = [k \in 0 .. (NumSlaves * 5 - 1) |-> 0]
    /\ now = 0
    /\ ctrl_i = 0
    /\ retry = 0
    /\ reached_op = TRUE
    /\ pd_sent = <<>>
    /\ issued = 0
    /\ drained = <<>>
    /\ aborted = {}
    /\ net_state = "OP"
    /\ master = "open"
    /\ reader = ReaderIdle
    /\ conv = ConvIdle
    /\ coupling = CouplingOff
    /\ latched = NoLatch

NextDecode ==
    \/ SyncCheck
    \/ FaultCheck
    \/ Control

SpecDecode == InitDecode /\ [][NextDecode]_vars

----------------------------------------------------------------------------
(* A client that calls stop() on a bus whose loop is in steady state: the    *)
(* loop, the finally block and EtherCATBusSafe.stop()                        *)

NextStop ==
    \/ stop
    \/ stop_join
    \/ terminate
    \/ \E i \in Slaves : \E mm \in MmSet : move_to_position_mm(i, mm)
    \/ DrainCommand
    \/ TrajectoryProcessing
    \/ ProcessData(LifeInputs)
    \/ SyncCheck
    \/ FaultCheck
    \/ Control
    \/ Sleep
    \/ FinallyReadState
    \/ PowerDownHold(LifeInputs)
    \/ PowerDownDisableOperation
    \/ PowerDownShutdown
    \/ PowerDownDisableVoltage
    \/ PowerDownInit
    \/ Close

SpecStop == InitLoop /\ [][NextStop]_vars

----------------------------------------------------------------------------
(* A client that polls current_position_mm while another sets origins and   *)
(* the loop publishes                                                        *)

NextRead ==
    \/ \E i \in Slaves :
         \/ set_origin(i)
         \/ current_position_mm_read_pos(i)
    \/ current_position_mm_read_offset
    \/ DrainCommand
    \/ TrajectoryProcessing
    \/ ProcessData(AllInputs)
    \/ SyncCheck
    \/ FaultCheck
    \/ Control
    \/ Sleep

SpecRead == InitLoop /\ [][NextRead]_vars

----------------------------------------------------------------------------
(* The control loop after a synchronisation error: the flag is set and      *)
(* published, every trajectory is cleared, every target is latched          *)

InitTripped ==
    /\ pc = "drain"
    /\ client_pc = "idle"
    /\ command_queue = <<>>
    /\ \E inp \in AllInputs :
          /\ input = inp
          /\ local_motor_states =
               [i \in Slaves |->
                  [InitMotorState EXCEPT !.target_pulse = inp[i].actual]]
          /\ output = [i \in Slaves |->
                         [cw |-> ControlwordFor(inp[i].status),
                          target |-> inp[i].actual]]
          /\ shared_states =
               [k \in 0 .. (NumSlaves * 5 - 1) |->
                  IF k % 5 = 0 THEN inp[k \div 5].status
                  ELSE IF k % 5 = 2 THEN inp[k \div 5].actual
                  ELSE IF k % 5 = 4 THEN 1
                  ELSE 0]
    /\ slave_configs = [i \in Slaves |-> [velocity |-> <<>>, accel |-> <<>>]]
    /\ is_running = TRUE
    /\ sync_error_detected = TRUE
    /\ trajectory_commands = <<>>
    /\ now = 0
    /\ ctrl_i = 0
    /\ retry = 0
    /\ reached_op = TRUE
    /\ pd_sent = <<>>
    /\ issued = 0
    /\ drained = <<>>
    /\ aborted = {}
    /\ net_state = "OP"
    /\ master = "open"
    /\ reader = ReaderIdle
    /\ conv = ConvIdle
    /\ coupling = CouplingOff
    /\ latched = NoLatch

SpecReset == InitTripped /\ [][NextLoop]_vars

----------------------------------------------------------------------------
(* The control loop after a SET_ORIGIN for one axis has been drained and     *)
(* published: the offset of that axis is its actual position                 *)

InitOrigin ==
    /\ pc = "drain"
    /\ client_pc = "idle"
    /\ command_queue = <<>>
    /\ \E inp \in AllInputs, o \in Slaves :
          /\ input = inp
          /\ local_motor_states =
               [i \in Slaves |->
                  [InitMotorState EXCEPT
                      !.target_pulse = inp[i].actual,
                      !.offset = IF i = o THEN inp[i].actual ELSE 0]]
          /\ output = [i \in Slaves |->
                         [cw |-> ControlwordFor(inp[i].status),
                          target |-> inp[i].actual]]
          /\ shared_states =
               [k \in 0 .. (NumSlaves * 5 - 1) |->
                  IF k % 5 = 0 THEN inp[k \div 5].status
                  ELSE IF k % 5 = 2 THEN inp[k \div 5].actual
                  ELSE IF k % 5 = 3 /\ k \div 5 = o THEN inp[o].actual
                  ELSE 0]
    /\ slave_configs = [i \in Slaves |-> [velocity |-> <<>>, accel |-> <<>>]]
    /\ is_running = TRUE
    /\ sync_error_detected = FALSE
    /\ trajectory_commands = <<>>
    /\ now = 0
    /\ ctrl_i = 0
    /\ retry = 0
    /\ reached_op = TRUE
    /\ pd_sent = <<>>
    /\ issued = 0
    /\ drained = <<>>
    /\ aborted = {}
    /\ net_state = "OP"
    /\ master = "open"
    /\ reader = ReaderIdle
    /\ conv = ConvIdle
    /\ coupling = CouplingOff
    /\ latched = NoLatch

SpecOrigin == InitOrigin /\ [][NextLoop]_vars

----------------------------------------------------------------------------
(* The control loop in steady state with drives that follow the CiA 402     *)
(* state machine and raise no fault: every drive starts in Switch-On        *)
(* Disabled, takes the transition its controlword asks for at each PDO      *)
(* exchange, and in Operation Enabled follows the target of the frame       *)

DriveCycles == 3     \* inter-cycle sleeps taken with the CiA 402 drives

SW_READY_TO_SWITCH_ON == 561      \* 0x0231
SW_SWITCHED_ON == 563             \* 0x0233

OperationEnabled(status) == BitAnd(status, 111) = 39

\* the statusword a drive in state "status" answers to controlword cw
Drive402(status, cw) ==
    LET shutdown == BitAnd(cw, 135) = 6
        switch_on == BitAnd(cw, 143) = 7
        enable_operation == BitAnd(cw, 143) = 15
        disable_voltage == BitAnd(cw, 130) = 0
    IN IF disable_voltage THEN SW_SWITCH_ON_DISABLED
       ELSE IF BitAnd(status, 79) = 64
       THEN (IF shutdown THEN SW_READY_TO_SWITCH_ON ELSE status)
       ELSE IF BitAnd(status, 111) = 33
       THEN (IF switch_on THEN SW_SWITCHED_ON
             ELSE IF enable_operation THEN SW_OPERATION_ENABLED
             ELSE status)
       ELSE IF BitAnd(status, 111) = 35
       THEN (IF enable_operation THEN SW_OPERATION_ENABLED
             ELSE IF shutdown THEN SW_READY_TO_SWITCH_ON
             ELSE status)
       ELSE IF BitAnd(status, 111) = 39
       THEN (IF switch_on THEN SW_SWITCHED_ON
             ELSE IF shutdown THEN SW_READY_TO_SWITCH_ON
             ELSE status)
       ELSE status

\* master.send_processdata(); master.receive_processdata() with such drives
DriveProcessData ==
    /\ pc = "pdo"
    /\ input' =
         [i \in Slaves |->
            LET status == Drive402(input[i].status, output[i].cw)
            IN [status |-> status,
                actual |-> IF OperationEnabled(status)
                           THEN output[i].target ELSE input[i].actual]]
    /\ pc' = "sync_check"
    /\ UNCHANGED <<latched, coupling, conv, reader, client_pc, command_queue, local_motor_states, slave_configs,
                   is_running, sync_error_detected, trajectory_commands, output,
                   shared_states, now, ctrl_i, retry, reached_op, pd_sent, master, issued,
                   drained, aborted, net_state>>

InitDrive ==
    /\ pc = "drain"
    /\ client_pc = "idle"
    /\ command_queue = <<>>
    /\ \E a \in [Slaves -> ActualSet] :
          /\ input = [i \in Slaves |->
                        [status |-> SW_SWITCH_ON_DISABLED, actual |-> a[i]]]
          /\ local_motor_states =
               [i \in Slaves |-> [InitMotorState EXCEPT !.target_pulse = a[i]]]
    /\ slave_configs = [i \in Slaves |-> [velocity |-> <<>>, accel |-> <<>>]]
    /\ is_running = TRUE
    /\ sync_error_detected = FALSE
    /\ trajectory_commands = <<>>
    /\ output = [i \in Slaves |-> [cw |-> 0, target |-> 0]]
    /\ shared_states = [k \in 0 .. (NumSlaves * 5 - 1) |-> 0]
    /\ now = 0
    /\ ctrl_i = 0
    /\ retry = 0
    /\ reached_op = TRUE
    /\ pd_sent = <<>>
    /\ issued = 0
    /\ drained = <<>>
    /\ aborted = {}
    /\ net_state = "OP"
    /\ master = "open"
    /\ reader = ReaderIdle
    /\ conv = ConvIdle
    /\ coupling = CouplingOff
    /\ latched = NoLatch

NextDrive ==
    \/ \E i \in Slaves :
         \/ set_origin(i)
         \/ \E mm \in MmSet : move_to_position_mm(i, mm)
    \/ DrainCommand
    \/ TrajectoryProcessing
    \/ DriveProcessData
    \/ SyncCheck
    \/ FaultCheck
    \/ Control
    \/ SleepFor(DriveCycles)

SpecDrive == InitDrive /\ [][NextDrive]_vars

----------------------------------------------------------------------------
(* The unit conversions of the send path and the read path on positions of   *)
(* up to MaxConvMm millimetres, whole and fractional, of either sign         *)

MaxConvMm == 10000

ConvMmSet == {0, 1, 2, 50, 768, 1535, MaxConvMm - 1}
ConvMicroSet == {0, 1, 250000, 333333, 500001, 999999}

InitConvert ==
    /\ pc = "not_started"
    /\ client_pc = "idle"
    /\ command_queue = <<>>
    /\ local_motor_states = [i \in Slaves |-> InitMotorState]
    /\ slave_configs = [i \in Slaves |-> [velocity |-> <<>>, accel |-> <<>>]]
    /\ is_running = TRUE
    /\ sync_error_detected = FALSE
    /\ trajectory_commands = <<>>
    /\ input = [i \in Slaves |-> [status |-> 0, actual |-> 0]]
    /\ output = [i \in Slaves |-> [cw |-> 0, target |-> 0]]
    /\ shared_states = [k \in 0 .. (NumSlaves * 5 - 1) |-> 0]
    /\ now = 0
    /\ ctrl_i = 0
    /\ retry = 0
    /\ reached_op = FALSE
    /\ pd_sent = <<>>
    /\ issued = 0
    /\ drained = <<>>
    /\ aborted = {}
    /\ net_state = "none"
    /\ master = "new"
    /\ reader = ReaderIdle
    /\ coupling = CouplingOff
    /\ latched = NoLatch
    /\ \E axis \in AxisSet, negative \in BOOLEAN,
          mm \in ConvMmSet \cup {MaxConvMm}, micro \in ConvMicroSet :
          /\ mm = MaxConvMm => micro = 0
          /\ conv = [ConvIdle EXCEPT !.pc = "target_mm", !.axis = axis,
                                     !.negative = negative, !.mm = mm,
                                     !.micro = micro]

NextConvert == ConvertToPulses \/ ConvertToMm

SpecConvert == InitConvert /\ [][NextConvert]_vars

----------------------------------------------------------------------------
(* The control loop of the bus with cross-coupling (EtherCATBusCoupling):   *)
(* the loop above with a corrective offset added to the target of each      *)
(* frame, and a gain and an enable flag the client may change at any time   *)

GainSet == {0, 5, 100}     \* coupling gains in percent

Partner(i) == NumSlaves - 1 - i

TruncDiv(a, b) == IF a >= 0 THEN a \div b ELSE -((-a) \div b)

Clamp(v, limit) == IF v > limit THEN limit ELSE IF v < -limit THEN -limit ELSE v

CouplingCorrection_Unclamped(i, positions) ==
    TruncDiv(coupling.gain * (positions[Partner(i)] - positions[i]), 100)

\* gain * e for axis i of the pair, e = actual of the partner - actual of i,
\* clamped to the sync-error threshold
CouplingCorrection(i, positions) ==
    Clamp(TruncDiv(coupling.gain * (positions[Partner(i)] - positions[i]), 100),
          max_sync_error_pulse)

\* "bus.coupling_gain = ..."
set_coupling_gain(gain) ==
    /\ coupling' = [coupling EXCEPT !.gain = gain]
    /\ UNCHANGED <<latched, conv, reader, pc, client_pc, command_queue, local_motor_states,
                   slave_configs, is_running, sync_error_detected,
                   trajectory_commands, input, output, shared_states, now, ctrl_i,
                   retry, reached_op, pd_sent, issued, drained, aborted, net_state,
                   master>>

\* "bus.coupling_enabled = ..."
set_coupling_enabled(enabled) ==
    /\ coupling' = [coupling EXCEPT !.enabled = enabled]
    /\ UNCHANGED <<latched, conv, reader, pc, client_pc, command_queue, local_motor_states,
                   slave_configs, is_running, sync_error_detected,
                   trajectory_commands, input, output, shared_states, now, ctrl_i,
                   retry, reached_op, pd_sent, issued, drained, aborted, net_state,
                   master>>

\* the per-axis step with coupling: the raw target u_i of the trajectory
\* engine, then u_i' = u_i + correction in the frame
ControlCoupling ==
    /\ pc = "control"
    /\ LET i == ctrl_i
           status == input[i].status
           state == ControlStep(local_motor_states[i], input[i].actual, now)
           correction == IF coupling.enabled /\ NumSlaves >= 2
                         THEN CouplingCorrection(i, Positions) ELSE 0
       IN /\ local_motor_states' = [local_motor_states EXCEPT ![i] = state]
          /\ output' = [output EXCEPT
                          ![i] = [cw |-> ControlwordFor(status),
                                  target |-> state.target_pulse + correction]]
          /\ shared_states' = Publish(shared_states, i, status, state,
                                      input[i].actual, sync_error_detected)
    /\ ctrl_i' = ctrl_i + 1
    /\ pc' = IF ctrl_i + 1 = NumSlaves THEN "sleep" ELSE "control"
    /\ UNCHANGED <<latched, coupling, conv, reader, client_pc, command_queue, slave_configs,
                   is_running, sync_error_detected, trajectory_commands, input, now,
                   retry, reached_op, pd_sent, master, issued,
                   drained, aborted, net_state>>

CouplingInputs ==
    [Slaves -> [status : {SW_OPERATION_ENABLED}, actual : ActualSet]]

InitCoupling ==
    /\ pc = "drain"
    /\ client_pc = "idle"
    /\ command_queue = <<>>
    /\ \E inp \in CouplingInputs :
          /\ input = inp
          /\ local_motor_states =
               [i \in Slaves |->
                  [InitMotorState EXCEPT !.target_pulse = inp[i].actual]]
    /\ slave_configs = [i \in Slaves |-> [velocity |-> <<>>, accel |-> <<>>]]
    /\ is_running = TRUE
    /\ sync_error_detected = FALSE
    /\ trajectory_commands = <<>>
    /\ output = [i \in Slaves |-> [cw |-> 0, target |-> 0]]
    /\ shared_states = [k \in 0 .. (NumSlaves * 5 - 1) |-> 0]
    /\ now = 0
    /\ ctrl_i = 0
    /\ retry = 0
    /\ reached_op = TRUE
    /\ pd_sent = <<>>
    /\ issued = 0
    /\ drained = <<>>
    /\ aborted = {}
    /\ net_state = "OP"
    /\ master = "open"
    /\ reader = ReaderIdle
    /\ conv = ConvIdle
    /\ latched = NoLatch
    /\ \E gain \in GainSet, enabled \in BOOLEAN :
          coupling = [gain |-> gain, enabled |-> enabled]

NextCoupling ==
    \/ \E gain \in GainSet : set_coupling_gain(gain)
    \/ \E enabled \in BOOLEAN : set_coupling_enabled(enabled)
    \/ \E i \in Slaves, mm \in MmSet : move_to_position_mm(i, mm)
    \/ DrainCommand
    \/ TrajectoryProcessing
    \/ ProcessData(CouplingInputs)
    \/ SyncCheck
    \/ FaultCheck
    \/ ControlCoupling
    \/ Sleep

SpecCoupling == InitCoupling /\ [][NextCoupling]_vars

TypeOK ==
    /\ pc \in {"not_started", "init_drain", "ec_init", "op_transition", "finally",
               "pd_hold", "pd_disable_operation", "pd_shutdown",
               "pd_disable_voltage", "pd_init", "close", "exited", "terminated"}
              \cup LoopPositions
    /\ issued \in 0 .. MaxCommands
    /\ ctrl_i \in 0 .. NumSlaves

----------------------------------------------------------------------------
(* Properties *)

\* the worker takes one command of the given kinds from the queue
DrainStep(cmds) ==
    /\ pc = "drain"
    /\ is_running
    /\ command_queue # <<>>
    /\ Head(command_queue).cmd \in cmds
    /\ command_queue' = Tail(command_queue)

NoneMoving(states) == \A i \in Slaves : ~HasTrajectory(states[i])

\* every slave that was moving is now latched to the actual position read in
\* this cycle
LatchedToActual(before, after) ==
    \A i \in Slaves : HasTrajectory(before[i]) => after[i].target_pulse = input[i].actual

\* C1 as written: once raised, the sync-error flag is lowered by nothing but
\* a drained RESET_SYNC_ERROR
C1_ClearedOnlyByReset ==
    [][(sync_error_detected /\ ~sync_error_detected')
          => DrainStep({"RESET_SYNC_ERROR"})]_vars

\* C1 as amended: once raised, the sync-error flag is lowered only by a drained
\* RESET_SYNC_ERROR or a drained SET_ORIGIN; draining SET_AXIS, MOVE_TO_MM,
\* SET_VELOCITY or SET_ACCEL leaves it raised
C1_ClearedOnlyByResetOrOrigin ==
    [][/\ (sync_error_detected /\ ~sync_error_detected')
            => DrainStep({"RESET_SYNC_ERROR", "SET_ORIGIN"})
       /\ (sync_error_detected
             /\ DrainStep({"SET_AXIS", "MOVE_TO_MM", "SET_VELOCITY", "SET_ACCEL"}))
            => sync_error_detected']_vars

C1_Witness ==
    /\ sync_error_detected
    /\ drained # <<>>
    /\ drained[1].cmd \in {"SET_AXIS", "MOVE_TO_MM", "SET_VELOCITY", "SET_ACCEL"}

\* C2: a MOVE_TO_MM drained while the sync-error flag is set is not added to
\* the batch and changes no slot; trajectories come from the batch only, so
\* none is created for it
C2_GatedMoveHasNoEffect ==
    [][/\ (sync_error_detected /\ DrainStep({"MOVE_TO_MM"}))
            => /\ trajectory_commands' = trajectory_commands
               /\ local_motor_states' = local_motor_states
       /\ (pc = "drain" /\ pc' # "drain" /\ trajectory_commands = <<>>)
            => local_motor_states' = local_motor_states]_vars

C2_Witness ==
    /\ sync_error_detected
    /\ drained # <<>>
    /\ drained[1].cmd = "MOVE_TO_MM"
    /\ trajectory_commands = <<>>

C3_Exceeded ==
    \E i \in Slaves :
       /\ i + 1 \in Slaves
       /\ Abs((input[i].actual - local_motor_states[i].offset)
              - (input[i + 1].actual - local_motor_states[i + 1].offset))
            > max_sync_error_pulse

\* C3: with two or more slaves and an active trajectory, a relative position
\* difference of an adjacent pair above max_sync_error_pulse makes the safety
\* pass set the flag, clear every trajectory and latch every aborted axis to
\* the actual position of this cycle, with no output frame written yet
C3_SyncGuardAborts ==
    [][(/\ pc = "sync_check"
        /\ pc' = "fault_check"
        /\ NumSlaves >= 2
        /\ ~NoneMoving(local_motor_states)
        /\ C3_Exceeded)
          => /\ sync_error_detected'
             /\ NoneMoving(local_motor_states')
             /\ LatchedToActual(local_motor_states, local_motor_states')
             /\ output' = output
             /\ input' = input]_vars

C3_Witness ==
    /\ pc = "fault_check"
    /\ sync_error_detected
    /\ aborted # {}
    /\ C3_Exceeded
    /\ \A i \in aborted : local_motor_states[i].target_pulse = input[i].actual

C4_FaultBit(status) == (status \div 8) % 2 = 1

\* C4: a fault bit on an axis with an active trajectory makes the fault guard
\* clear every trajectory and latch every aborted axis to its actual position,
\* with no output frame written yet; the sync guard before it either leaves
\* the slots alone or has already done the same
C4_FaultGuardAborts ==
    [][/\ (/\ pc = "fault_check"
           /\ pc' = "control"
           /\ \E i \in Slaves : /\ C4_FaultBit(input[i].status)
                                /\ HasTrajectory(local_motor_states[i]))
            => /\ NoneMoving(local_motor_states')
               /\ LatchedToActual(local_motor_states, local_motor_states')
               /\ output' = output
               /\ input' = input
       /\ (pc = "sync_check" /\ pc' = "fault_check")
            => \/ local_motor_states' = local_motor_states
               \/ /\ NoneMoving(local_motor_states')
                  /\ LatchedToActual(local_motor_states, local_motor_states')]_vars

C4_Witness ==
    /\ pc = "control"
    /\ ctrl_i = 0
    /\ ~sync_error_detected
    /\ aborted = Slaves
    /\ \E i \in aborted : ~C4_FaultBit(input[i].status)
    /\ NoneMoving(local_motor_states)
    /\ \A i \in aborted : local_motor_states[i].target_pulse = input[i].actual

\* natural duration of one accepted command, from the slot it addresses
C5_Natural(c) ==
    LET st == local_motor_states[c.slave]
        rpm == IF slave_configs[c.slave].velocity = <<>>
               THEN DefaultRpm ELSE slave_configs[c.slave].velocity[1]
    IN NaturalDurationMs(
          Abs(MmToPulseRelative(c.mm, st.axis) + st.offset - input[c.slave].actual),
          rpm)

\* C5: the trajectories installed for a batch share one start_time and one
\* duration T; T is no less than 0.1 s and than every natural duration of the
\* batch, and is one of these values
C5_CoStart ==
    [][(/\ pc = "drain"
        /\ pc' # "drain"
        /\ trajectory_commands # <<>>
        /\ trajectory_commands' = <<>>)
          => \E T \in {C5_Natural(trajectory_commands[k]) :
                          k \in DOMAIN trajectory_commands} \cup {MinDurationMs} :
               /\ T >= MinDurationMs
               /\ \A k \in DOMAIN trajectory_commands :
                     LET installed == local_motor_states'[trajectory_commands[k].slave]
                         first == local_motor_states'[trajectory_commands[1].slave]
                     IN /\ T >= C5_Natural(trajectory_commands[k])
                        /\ HasTrajectory(installed)
                        /\ Traj(installed).duration = T
                        /\ Traj(installed).start_time = Traj(first).start_time]_vars

C5_Witness ==
    /\ pc = "pdo"
    /\ \A i \in Slaves : HasTrajectory(local_motor_states[i])
    /\ Traj(local_motor_states[0]).duration = Traj(local_motor_states[1]).duration
    /\ Traj(local_motor_states[0]).start_time = Traj(local_motor_states[1]).start_time
    /\ Traj(local_motor_states[0]).duration > MinDurationMs
    /\ Abs(Traj(local_motor_states[0]).end - Traj(local_motor_states[0]).start)
         # Abs(Traj(local_motor_states[1]).end - Traj(local_motor_states[1]).start)

\* the control step has written the output frame of slave i in this cycle
Written(i) == pc \in {"control", "sleep"} /\ ctrl_i > i

Bit(word, k) == (word \div (2 ^ k)) % 2

\* the decoding table of the statusword, row by row, first match wins
C6_Table(sw) ==
    IF Bit(sw, 6) = 1 /\ Bit(sw, 3) = 0 /\ Bit(sw, 2) = 0
          /\ Bit(sw, 1) = 0 /\ Bit(sw, 0) = 0
    THEN 6
    ELSE IF Bit(sw, 6) = 0 /\ Bit(sw, 5) = 1 /\ Bit(sw, 3) = 0 /\ Bit(sw, 2) = 0
              /\ Bit(sw, 1) = 0 /\ Bit(sw, 0) = 1
    THEN 7
    ELSE IF Bit(sw, 6) = 0 /\ Bit(sw, 5) = 1 /\ Bit(sw, 3) = 0 /\ Bit(sw, 2) = 0
              /\ Bit(sw, 1) = 1 /\ Bit(sw, 0) = 1
    THEN 15
    ELSE IF Bit(sw, 6) = 0 /\ Bit(sw, 5) = 1 /\ Bit(sw, 3) = 0 /\ Bit(sw, 2) = 1
              /\ Bit(sw, 1) = 1 /\ Bit(sw, 0) = 1
    THEN 15
    ELSE IF Bit(sw, 3) = 1
    THEN 128
    ELSE 15

\* C6: the controlword written to a slave is the table's value for the
\* statusword read in the cycle, whatever the trajectory state and the
\* sync-error flag
C6_ControlwordFromStatusword ==
    \A i \in Slaves : Written(i) => output[i].cw = C6_Table(input[i].status)

C6_Witness ==
    /\ Written(0)
    /\ HasTrajectory(local_motor_states[0])
    /\ input[0].status = SW_SWITCH_ON_DISABLED
    /\ output[0].cw = CW_SHUTDOWN

\* C7: a statusword with bit 3 set gets Fault-Reset, and matches none of the
\* four rows above the fault row
C7_FaultBitGetsFaultReset ==
    \A i \in Slaves :
       (Written(i) /\ Bit(input[i].status, 3) = 1)
          => /\ output[i].cw = CW_FAULT_RESET
             /\ BitAnd(input[i].status, 79) # 64
             /\ BitAnd(input[i].status, 111) \notin {33, 35, 39}

\* bit 3 together with the bits of Switch-On-Disabled and of
\* Operation-Enabled
C7_Witness ==
    /\ Written(0)
    /\ input[0].status = 64 + 39 + 8
    /\ output[0].cw = CW_FAULT_RESET

\* C8 as written: every axis aborted in this cycle is written Enable-Operation
\* and its actual position
C8_AbortedGetsEnableOperation ==
    \A i \in aborted :
       Written(i) => /\ output[i].cw = CW_ENABLE_OPERATION
                     /\ output[i].target = input[i].actual

\* C8 as amended: every axis aborted in this cycle is written the controlword
\* of the decoding table for its statusword (Fault-Reset when its fault bit is
\* set, Enable-Operation when it is in Operation-Enabled) and its actual
\* position
C8_AbortedGetsTableControlword ==
    \A i \in aborted :
       Written(i)
          => /\ output[i].target = input[i].actual
             /\ output[i].cw = C6_Table(input[i].status)
             /\ Bit(input[i].status, 3) = 1 => output[i].cw = CW_FAULT_RESET
             /\ BitAnd(input[i].status, 111) = 39 => output[i].cw = CW_ENABLE_OPERATION

C8_Witness ==
    /\ aborted = Slaves
    /\ \A i \in Slaves : Written(i)
    /\ \E i \in aborted : output[i].cw = CW_FAULT_RESET
    /\ \E i \in aborted : output[i].cw = CW_ENABLE_OPERATION
    /\ \A i \in aborted : output[i].target = input[i].actual

\* the controlword vectors of a complete power-down, in order
ExpectedPowerDown ==
    [k \in 1 .. (HoldSends + 3) |->
        [i \in Slaves |->
            IF k <= HoldSends THEN CW_ENABLE_OPERATION
            ELSE IF k = HoldSends + 1 THEN CW_SWITCH_ON
            ELSE IF k = HoldSends + 2 THEN CW_SHUTDOWN
            ELSE CW_DISABLE_VOLTAGE]]

IsPrefix(a, b) == Len(a) <= Len(b) /\ \A k \in 1 .. Len(a) : a[k] = b[k]

\* C9: a worker that has reached OP and has ended, by itself or terminated by
\* stop(), has sent the complete power-down and written INIT
C9_EveryExitPowersDown ==
    (reached_op /\ pc \in {"exited", "terminated"})
       => (pd_sent = ExpectedPowerDown /\ net_state = "INIT")

\* C10: what the power-down has sent is at every moment a prefix of hold x 5,
\* Switch-On, Shutdown, Disable-Voltage; INIT is written only after all of it,
\* and a worker that entered the power-down closes the master only after INIT
C10_PowerDownOrder ==
    /\ IsPrefix(pd_sent, ExpectedPowerDown)
    /\ pc = "pd_hold" => Controlwords(output) = ExpectedPowerDown[1]
    /\ pc = "pd_disable_operation" => Len(pd_sent) = HoldSends
    /\ pc = "pd_shutdown" => Len(pd_sent) = HoldSends + 1
    /\ pc = "pd_disable_voltage" => Len(pd_sent) = HoldSends + 2
    /\ pc = "pd_init" => pd_sent = ExpectedPowerDown /\ net_state = "OP"
    /\ net_state = "INIT" => pd_sent = ExpectedPowerDown
    /\ (master = "closed" /\ pd_sent # <<>>) => net_state = "INIT"

C10_Witness ==
    /\ pc = "exited"
    /\ master = "closed"
    /\ net_state = "INIT"
    /\ pd_sent = ExpectedPowerDown

\* C11: a worker that was sent STOP_ALL while its loop was in steady state and
\* has ended has consumed the command at a drain, has made at least 4
\* process-data sends of the power-down sequence and has closed the master
C11_StopAllPowersDown ==
    (client_pc # "idle" /\ pc \in {"exited", "terminated"})
       => /\ ~is_running
          /\ Len(pd_sent) >= 4
          /\ master = "closed"

\* C12: the pair (actual pulses, offset) a lock-free reader of
\* current_position_mm ends up with was published together: it is the pair
\* that was in the block at its first read or the pair at its second read
C12_ReaderSeesOneCycle ==
    reader.pc = "done"
       => \/ reader.offset = reader.offset_before
          \/ reader.current_pos = reader.current_pos_after

\* C13: a drained RESET_SYNC_ERROR lowers the flag, the flag is raised again
\* by the sync guard only, a MOVE_TO_MM drained while the flag is down joins
\* the batch, and the batch installs for each of its axes a trajectory that
\* starts at the actual pulses of the axis
C13_MoveHonoredAfterReset ==
    [][/\ DrainStep({"RESET_SYNC_ERROR"}) => ~sync_error_detected'
       /\ (~sync_error_detected /\ sync_error_detected') => pc = "sync_check"
       /\ (~sync_error_detected /\ DrainStep({"MOVE_TO_MM"}))
            => /\ Len(trajectory_commands') = Len(trajectory_commands) + 1
               /\ trajectory_commands'[Len(trajectory_commands')].slave
                     = Head(command_queue).slave
       /\ (pc = "drain" /\ pc' # "drain")
            => \A k \in DOMAIN trajectory_commands :
                  LET installed == local_motor_states'[trajectory_commands[k].slave]
                  IN /\ HasTrajectory(installed)
                     /\ Traj(installed).start
                           = input[trajectory_commands[k].slave].actual
                     /\ Traj(installed).start_time = now]_vars

\* no origin was moved, so the flag was lowered by RESET_SYNC_ERROR; the move
\* drained after it has installed a trajectory from the actual position
C13_Witness ==
    /\ pc = "pdo"
    /\ ~sync_error_detected
    /\ shared_states[4] = 1
    /\ \A i \in Slaves : input[i].actual # 0 /\ local_motor_states[i].offset = 0
    /\ \E i \in Slaves :
          /\ HasTrajectory(local_motor_states[i])
          /\ Traj(local_motor_states[i]).start = input[i].actual

\* the published block shows the moving state, the offset and the flag the
\* worker holds
C14_Published ==
    \A i \in Slaves :
       /\ shared_states[i * 5 + 1] = (IF HasTrajectory(local_motor_states[i]) THEN 1 ELSE 0)
       /\ shared_states[i * 5 + 3] = local_motor_states[i].offset
       /\ shared_states[i * 5 + 4] = (IF sync_error_detected THEN 1 ELSE 0)

\* C14: what the drain of a cycle does (SET_ORIGIN latches the offset,
\* RESET_SYNC_ERROR lowers the flag, the accepted moves install trajectories)
\* is still there when the cycle publishes, except for what the same cycle's
\* sync guard, fault guard or completion test changed, and the block
\* published at the end of that cycle shows it
C14_DrainedEffectsPublished ==
    [][/\ DrainStep({"SET_ORIGIN"})
            => local_motor_states'[Head(command_queue).slave].offset
                  = input[Head(command_queue).slave].actual
       /\ DrainStep({"RESET_SYNC_ERROR"}) => ~sync_error_detected'
       /\ (pc = "drain" /\ pc' = "pdo")
            => \A k \in DOMAIN trajectory_commands :
                  HasTrajectory(local_motor_states'[trajectory_commands[k].slave])
       /\ (pc \in {"pdo", "sync_check", "fault_check", "control"})
            => /\ \A i \in Slaves :
                     local_motor_states'[i].offset = local_motor_states[i].offset
               /\ sync_error_detected' # sync_error_detected
                     => (pc = "sync_check" /\ sync_error_detected')
               /\ \A i \in Slaves :
                     (HasTrajectory(local_motor_states[i])
                        /\ ~HasTrajectory(local_motor_states'[i]))
                       => \/ pc \in {"sync_check", "fault_check"}
                          \/ /\ pc = "control"
                             /\ ctrl_i = i
                             /\ Abs(Traj(local_motor_states[i]).end - input[i].actual)
                                   < CompletionTolerance
       /\ pc' = "sleep" => C14_Published']_vars

\* first cycle after a trip: a SET_ORIGIN and a MOVE_TO_MM drained in it are
\* in the block published at its end
C14_Witness ==
    /\ pc = "sleep"
    /\ now = 0
    /\ \E i \in Slaves :
          /\ shared_states[i * 5 + 3] # 0
          /\ shared_states[i * 5 + 1] = 1
          /\ shared_states[i * 5 + 4] = 0

\* C15: each bootstrap phase makes at most 3 attempts; after the third failure
\* of a phase the worker leaves towards its exit; a worker that has not
\* reached OP is never inside the control loop, publishes nothing, has its
\* output written by the finally block only, and has closed the master when it
\* has exited
C15_BootstrapBounded ==
    [][/\ (pc' \in {"ec_init", "op_transition"}) => retry' \in 0 .. 2
       /\ (pc' = pc /\ pc \in {"ec_init", "op_transition"} /\ retry' # retry)
             => retry' = retry + 1
       /\ (pc = "ec_init" /\ pc' = "exited") => (retry = 2 /\ master' = "closed")
       /\ (pc = "op_transition" /\ pc' = "finally") => (retry = 2 /\ ~reached_op')
       /\ ~reached_op'
             => /\ pc' \notin LoopPositions
                /\ \A k \in DOMAIN shared_states : shared_states'[k] = 0
                /\ output' # output
                      => pc \in {"finally", "pd_disable_operation", "pd_shutdown",
                                 "pd_disable_voltage"}
       /\ (pc' = "exited" /\ ~reached_op') => master' = "closed"]_vars

\* OP was requested, every attempt failed, the worker has exited
C15_Witness ==
    /\ pc = "exited"
    /\ ~reached_op
    /\ net_state = "OP"
    /\ master = "closed"
    /\ \A k \in DOMAIN shared_states : shared_states[k] = 0

\* C16: once the bootstrap has failed terminally and the worker has exited,
\* what the client can read differs from what it reads from a bus that was
\* constructed and not yet started
C16_BootstrapFailureSurfaced ==
    (pc = "exited" /\ ~reached_op)
       => ClientReadable # [k \in 0 .. (NumSlaves * 5 - 1) |-> 0]

\* C17: the successful OP transition sets every target_pulse to the actual
\* pulses read at that moment; through the first cycle (now = 0) a slot with
\* no trajectory keeps that value, whatever the drives answer meanwhile, and
\* the control step writes it as the target of the first frame
C17_FirstFrameSeeded ==
    [][/\ (pc = "op_transition" /\ reached_op')
            => \A i \in Slaves : local_motor_states'[i].target_pulse = input'[i].actual
       /\ (reached_op' /\ now' = 0 /\ pc' = "drain")
            => \A i \in Slaves : local_motor_states'[i].target_pulse = input'[i].actual
       /\ (reached_op /\ now = 0 /\ pc \in LoopPositions
             /\ NoneMoving(local_motor_states) /\ NoneMoving(local_motor_states'))
            => \A i \in Slaves :
                  local_motor_states'[i].target_pulse = local_motor_states[i].target_pulse
       /\ (pc = "control" /\ now = 0 /\ ctrl_i' = ctrl_i + 1
             /\ ~HasTrajectory(local_motor_states[ctrl_i]))
            => output'[ctrl_i].target = local_motor_states[ctrl_i].target_pulse]_vars

\* first cycle, no move: slave 1 was seeded at a non-zero position, has since
\* answered 0, and its first frame carries the seeded position
C17_Witness ==
    /\ now = 0
    /\ Written(1)
    /\ NoneMoving(local_motor_states)
    /\ input[1].actual = 0
    /\ output[1].target # 0
    /\ output[1].target = local_motor_states[1].target_pulse

\* C18: the step in which stop() returns from its branch for a live worker
\* leaves no running worker, and a worker is killed only after the join on a
\* worker that was still alive
C18_StoppedMeansNotRunning ==
    [][/\ (client_pc = "joining" /\ client_pc' # "joining") => ~ProcessAlive'
       /\ (pc' = "terminated" /\ pc # "terminated")
            => client_pc \notin {"idle", "joining"}]_vars

\* a SET_ORIGIN is drained for an axis whose offset already is its actual
\* position, as an earlier SET_ORIGIN at that position left it
C19_SecondSetOrigin ==
    /\ DrainStep({"SET_ORIGIN"})
    /\ local_motor_states[Head(command_queue).slave].offset
          = input[Head(command_queue).slave].actual

\* C19 as written: a second SET_ORIGIN at an unchanged actual position changes
\* no state of the worker (taken for a non-zero offset, which only an earlier
\* SET_ORIGIN can have latched)
C19_SecondSetOriginChangesNothing ==
    [][(/\ C19_SecondSetOrigin
        /\ local_motor_states[Head(command_queue).slave].offset # 0)
          => /\ local_motor_states' = local_motor_states
             /\ sync_error_detected' = sync_error_detected]_vars

\* C19 as amended: a second SET_ORIGIN at an unchanged actual position leaves
\* the offset equal to the actual position and changes nothing else, except
\* that it sets the target of the axis to the actual position and lowers the
\* sync-error flag; a block published while offset and actual position agree
\* shows position minus offset = 0
C19_SecondSetOriginKeepsOrigin ==
    [][/\ C19_SecondSetOrigin
            => LET s == Head(command_queue).slave IN
               /\ local_motor_states'[s].offset = local_motor_states[s].offset
               /\ local_motor_states'[s].offset = input[s].actual
               /\ local_motor_states' =
                     [local_motor_states EXCEPT ![s].target_pulse = input[s].actual]
               /\ ~sync_error_detected'
       /\ pc' = "sleep"
            => \A i \in Slaves :
                  local_motor_states'[i].offset = input'[i].actual
                     => shared_states'[i * 5 + 2] - shared_states'[i * 5 + 3] = 0]_vars

\* a SET_ORIGIN was just drained for an axis whose non-zero offset had been
\* published before and whose actual position is still that offset
C19_Witness ==
    /\ pc = "drain"
    /\ drained # <<>>
    /\ drained[1].cmd = "SET_ORIGIN"
    /\ LET s == drained[1].slave IN
          /\ local_motor_states[s].offset # 0
          /\ local_motor_states[s].offset = input[s].actual
          /\ shared_states[s * 5 + 3] = local_motor_states[s].offset
          /\ shared_states[s * 5 + 2] - shared_states[s * 5 + 3] = 0

----------------------------------------------------------------------------
\* the last accepted move of the drain for slave s, if any
C20_LastMoveFor(s) ==
    LET ks == {k \in DOMAIN trajectory_commands : trajectory_commands[k].slave = s}
    IN trajectory_commands[MaxOf(ks)]

\* the trajectory processing step installs trajectories
C20_Installs ==
    /\ pc = "drain"
    /\ pc' # "drain"
    /\ trajectory_commands # <<>>
    /\ ~sync_error_detected

\* C20: an accepted move-to installs a trajectory whose end is the relative
\* pulse count of the commanded position plus the axis's origin offset, so a
\* move-to of 0 mm ends exactly at the offset P that set-origin latched; a
\* control step that completes the trajectory, or runs after its duration has
\* elapsed, commands exactly that end as the target
C20_MoveToZeroEndsAtOrigin ==
    [][/\ C20_Installs
            => \A s \in Slaves :
                  (\E k \in DOMAIN trajectory_commands :
                        trajectory_commands[k].slave = s)
                     => LET c == C20_LastMoveFor(s)
                            before == local_motor_states[s]
                            after == local_motor_states'[s]
                        IN /\ HasTrajectory(after)
                           /\ after.offset = before.offset
                           /\ Traj(after).end =
                                 MmToPulseRelative(c.mm, before.axis) + before.offset
                           /\ c.mm = 0 => Traj(after).end = before.offset
       /\ (/\ pc = "control"
           /\ HasTrajectory(local_motor_states[ctrl_i])
           /\ \/ Abs(Traj(local_motor_states[ctrl_i]).end - input[ctrl_i].actual)
                    < CompletionTolerance
              \/ now - Traj(local_motor_states[ctrl_i]).start_time
                    >= Traj(local_motor_states[ctrl_i]).duration)
            => /\ local_motor_states'[ctrl_i].target_pulse
                     = Traj(local_motor_states[ctrl_i]).end
               /\ output'[ctrl_i].target = Traj(local_motor_states[ctrl_i]).end]_vars

\* a move-to of 0 mm was just installed for an axis whose non-zero origin
\* offset differs from its actual position: the trajectory runs from the
\* actual position to the offset
C20_Witness ==
    /\ pc = "pdo"
    /\ \E s \in Slaves :
          /\ local_motor_states[s].offset # 0
          /\ HasTrajectory(local_motor_states[s])
          /\ Traj(local_motor_states[s]).end = local_motor_states[s].offset
          /\ Traj(local_motor_states[s]).start # Traj(local_motor_states[s]).end
          /\ Traj(local_motor_states[s]).start_time = now

----------------------------------------------------------------------------
\* C21: a SET_VELOCITY drained in a steady-state cycle is handled in that
\* cycle: from the drain on, the velocity configured for the slave, from which
\* the durations of its move-to commands are computed, is the commanded RPM
C21_SetVelocityHandled ==
    [][DrainStep({"SET_VELOCITY"})
          => slave_configs'[Head(command_queue).slave].velocity
                = <<Head(command_queue).value>>]_vars

----------------------------------------------------------------------------
----------------------------------------------------------------------------
\* 1e-6 mm in units of 1e-11 mm
C23_Tolerance == BigOfInt(100000)

\* C23: for each axis tag and every position of at most 10000 mm in
\* magnitude, the send path's conversion to pulses followed by the read path's
\* conversion to millimetres gives the position back within 1e-6 mm, with its
\* sign; both conversions use the scale of 2 x PULSES_PER_REVOLUTION
C23_RoundTrip ==
    conv.pc = "position"
       => /\ ~BigLess(C23_Tolerance,
                      BigAbsDiff(conv.position, MmUnits(conv.mm, conv.micro)))
          /\ conv.position # <<>> => conv.position_negative = conv.negative

\* a negative position just below 10000 mm on the z axis went through both
\* conversions and came back shortened by the truncation to whole pulses
C23_Witness ==
    /\ conv.pc = "position"
    /\ conv.axis = "z"
    /\ conv.negative
    /\ conv.mm = MaxConvMm - 1
    /\ conv.micro = 999999
    /\ BigLess(BigOfInt(PULSES_PER_REVOLUTION * 2), conv.pulses)
    /\ BigLess(conv.position, MmUnits(conv.mm, conv.micro))

----------------------------------------------------------------------------
----------------------------------------------------------------------------
\* C25: from the abort of a trajectory by the safety pass until another
\* command for the axis is drained, the axis has no trajectory, its stored
\* target is the actual position observed at the abort, and every frame
\* written for it carries that position as target
C25_AbortedAxisHeld ==
    \A i \in Slaves :
       latched[i] # <<>>
          => /\ ~HasTrajectory(local_motor_states[i])
             /\ local_motor_states[i].target_pulse = latched[i][1]
             /\ Written(i) => output[i].target = latched[i][1]

\* the cycle after an abort: the frame of the aborted axis still carries the
\* position latched at the abort although the actual position has changed
C25_Witness ==
    /\ pc = "sleep"
    /\ now = CycleTimeMs
    /\ aborted = {}
    /\ \E i \in Slaves :
          /\ latched[i] # <<>>
          /\ output[i].target = latched[i][1]
          /\ input[i].actual # latched[i][1]

----------------------------------------------------------------------------
\* the control step of the slave whose turn it is, holding a trajectory
C26_ControlsMoving ==
    /\ pc = "control"
    /\ ctrl_i' = ctrl_i + 1
    /\ HasTrajectory(local_motor_states[ctrl_i])

\* C26: the control step clears a trajectory only when |end - actual| < 50000
\* for that axis, and then the stored and the emitted target are exactly end;
\* when the elapsed time has reached the duration but the position error has
\* not come below 50000, the trajectory stays, the moving flag is published
\* as 1 and end is emitted
C26_PositionBasedCompletion ==
    [][C26_ControlsMoving
          => LET i == ctrl_i
                 traj == Traj(local_motor_states[i])
                 near == Abs(traj.end - input[i].actual) < CompletionTolerance
             IN /\ ~HasTrajectory(local_motor_states'[i])
                     => /\ near
                        /\ local_motor_states'[i].target_pulse = traj.end
                        /\ output'[i].target = traj.end
                /\ (~near /\ now - traj.start_time >= traj.duration)
                     => /\ HasTrajectory(local_motor_states'[i])
                        /\ Traj(local_motor_states'[i]) = traj
                        /\ shared_states'[i * 5 + 1] = 1
                        /\ output'[i].target = traj.end]_vars

\* a frame was written for an axis whose trajectory has run out of time while
\* the axis is still more than 50000 pulses from the end: it is still moving
C26_Witness ==
    /\ pc \in {"control", "sleep"}
    /\ \E i \in Slaves :
          /\ ctrl_i > i
          /\ HasTrajectory(local_motor_states[i])
          /\ now - Traj(local_motor_states[i]).start_time
                >= Traj(local_motor_states[i]).duration
          /\ Abs(Traj(local_motor_states[i]).end - input[i].actual)
                >= CompletionTolerance
          /\ output[i].target = Traj(local_motor_states[i]).end
          /\ shared_states[i * 5 + 1] = 1

----------------------------------------------------------------------------
\* C27: when a move-to is accepted for an axis that holds a trajectory, the
\* trajectory processing of the same cycle replaces it by the new one, which
\* starts now at the actual position read last and ends at the commanded
\* position; a slot never holds more than one trajectory, and the first frame
\* written afterwards is computed from the new trajectory (its start, or its
\* end when the axis is already there)
C27_Replaced ==
    [][/\ C20_Installs
            => \A s \in Slaves :
                  (/\ HasTrajectory(local_motor_states[s])
                   /\ \E k \in DOMAIN trajectory_commands :
                         trajectory_commands[k].slave = s)
                     => LET new == local_motor_states'[s].trajectory
                        IN /\ Len(new) = 1
                           /\ new[1].start = input[s].actual
                           /\ new[1].start_time = now
                           /\ new[1].end =
                                 MmToPulseRelative(C20_LastMoveFor(s).mm,
                                                   local_motor_states[s].axis)
                                    + local_motor_states[s].offset
       /\ \A i \in Slaves : Len(local_motor_states'[i].trajectory) <= 1
       /\ (/\ C26_ControlsMoving
           /\ Traj(local_motor_states[ctrl_i]).start_time = now)
            => LET traj == Traj(local_motor_states[ctrl_i])
               IN output'[ctrl_i].target =
                     IF Abs(traj.end - input[ctrl_i].actual) < CompletionTolerance
                     THEN traj.end ELSE traj.start]_vars

\* a second move-to has just replaced the trajectory that was published as
\* active at the end of the previous cycle; the new one differs in its start
C27_Witness ==
    /\ pc = "pdo"
    /\ now = CycleTimeMs
    /\ \E s \in Slaves :
          /\ shared_states[s * 5 + 1] = 1
          /\ HasTrajectory(local_motor_states[s])
          /\ Traj(local_motor_states[s]).start_time = now
          /\ Traj(local_motor_states[s]).start = input[s].actual
          /\ Traj(local_motor_states[s]).start # shared_states[s * 5 + 2]
                \/ Traj(local_motor_states[s]).end # output[s].target

----------------------------------------------------------------------------
\* C28: the sections of a steady-state cycle follow one another in the order
\* command drain, trajectory instantiation, process-data exchange, safety
\* pass (synchronisation check, fault check), per-slave write and publish,
\* sleep; each section does its work only at its place: the queue is read
\* only in the drain, trajectories are installed only on leaving the drain,
\* the inputs change only in the one exchange of the cycle, the flag rises
\* only in the synchronisation check, outputs and published states change
\* only in the control section, and the cycle time advances only on sleep
C28_NextSection ==
    {<<"drain", "pdo">>, <<"pdo", "sync_check">>, <<"sync_check", "fault_check">>,
     <<"fault_check", "control">>, <<"control", "sleep">>, <<"sleep", "drain">>}

C28_CycleOrder ==
    [][/\ pc' # pc => <<pc, pc'>> \in C28_NextSection
       /\ Len(command_queue') < Len(command_queue) => pc = "drain" /\ pc' = "drain"
       /\ (\E s \in Slaves :
              /\ HasTrajectory(local_motor_states'[s])
              /\ local_motor_states'[s].trajectory # local_motor_states[s].trajectory)
            => pc = "drain" /\ pc' = "pdo"
       /\ input' # input => pc = "pdo" /\ pc' = "sync_check"
       /\ (sync_error_detected' /\ ~sync_error_detected)
            => pc = "sync_check" /\ pc' = "fault_check"
       /\ (output' # output \/ shared_states' # shared_states)
            => /\ pc = "control"
               /\ pc' = IF ctrl_i + 1 = NumSlaves THEN "sleep" ELSE "control"
               /\ \A i \in Slaves \ {ctrl_i} :
                     /\ output'[i] = output[i]
                     /\ \A k \in 0 .. 4 :
                           shared_states'[i * 5 + k] = shared_states[i * 5 + k]
               /\ shared_states'[ctrl_i * 5 + 2] = input[ctrl_i].actual
       /\ now' # now => pc = "sleep" /\ pc' = "drain"]_vars

\* the second cycle has run through all its sections: a move-to drained and
\* installed in it, new inputs received, target written and state published
C28_Witness ==
    /\ pc = "sleep"
    /\ now = CycleTimeMs
    /\ \E s \in Slaves :
          /\ HasTrajectory(local_motor_states[s])
          /\ Traj(local_motor_states[s]).start_time = now
          /\ Traj(local_motor_states[s]).start # input[s].actual
          /\ shared_states[s * 5 + 1] = 1
          /\ shared_states[s * 5 + 2] = input[s].actual
          /\ output[s].target = local_motor_states[s].target_pulse

----------------------------------------------------------------------------
----------------------------------------------------------------------------
\* C30: the target computed for an active trajectory lies between its start
\* and its end at every elapsed time, starts at the start position, and
\* never moves back toward the start as the elapsed time grows; the frame
\* written by a control step for a slave that still holds its trajectory
\* carries such a target, no nearer to the start than the frame before it
C30_Between(traj, x) ==
    \/ traj.start <= x /\ x <= traj.end
    \/ traj.end <= x /\ x <= traj.start

\* the target at k sixteenths of the duration
C30_At(traj, k) == Interpolate(traj, (k * traj.duration) \div 16)

C30_TargetBetweenAndMonotone ==
    /\ [](\A i \in Slaves :
            HasTrajectory(local_motor_states[i])
              => LET traj == Traj(local_motor_states[i])
                 IN /\ Interpolate(traj, 0) = traj.start
                    /\ \A k \in 0 .. 16 :
                          /\ C30_Between(traj, C30_At(traj, k))
                          /\ C30_Between(traj, C30_At(traj, k + 1))
                          /\ Abs(C30_At(traj, k) - traj.start)
                                <= Abs(C30_At(traj, k + 1) - traj.start))
    /\ [][(C26_ControlsMoving /\ HasTrajectory(local_motor_states'[ctrl_i]))
             => LET traj == Traj(local_motor_states[ctrl_i])
                IN /\ C30_Between(traj, output'[ctrl_i].target)
                   /\ traj.start_time < now
                        => Abs(output[ctrl_i].target - traj.start)
                              <= Abs(output'[ctrl_i].target - traj.start)]_vars

\* one cycle after its start a trajectory is still active and the frame
\* carries a target strictly between its start and its end
C30_Witness ==
    /\ pc = "sleep"
    /\ \E i \in Slaves :
          /\ HasTrajectory(local_motor_states[i])
          /\ Traj(local_motor_states[i]).start_time < now
          /\ output[i].target # Traj(local_motor_states[i]).start
          /\ output[i].target # Traj(local_motor_states[i]).end
          /\ C30_Between(Traj(local_motor_states[i]), output[i].target)

----------------------------------------------------------------------------
\* C31: every frame written in the power-down sequence (the hold frame and
\* the Switch-On, Shutdown and Disable-Voltage frames) carries for each slave
\* the actual position received last, and from the hold onward no slave
\* holds a trajectory and every stored target is the position latched
C31_PowerDownPositions == {"pd_hold", "pd_disable_operation", "pd_shutdown",
                           "pd_disable_voltage", "pd_init"}

C31_PowerDownHoldsActual ==
    /\ [](pc \in C31_PowerDownPositions
            => \A i \in Slaves : ~HasTrajectory(local_motor_states[i]))
    /\ [][(pc \in {"finally"} \cup C31_PowerDownPositions /\ output' # output)
            => \A i \in Slaves : output'[i].target = input[i].actual]_vars
    /\ [][(pc' # pc /\ <<pc, pc'>> \in {<<"finally", "pd_hold">>,
                                        <<"pd_disable_operation", "pd_shutdown">>,
                                        <<"pd_shutdown", "pd_disable_voltage">>,
                                        <<"pd_disable_voltage", "pd_init">>})
            => \A i \in Slaves : output'[i].target = input[i].actual]_vars

\* the Shutdown frame has been written with the position of a slave that was
\* published as moving, away from the target it had been given before
C31_Witness ==
    /\ pc = "pd_disable_voltage"
    /\ \E i \in Slaves :
          /\ shared_states[i * 5 + 1] = 1
          /\ ~HasTrajectory(local_motor_states[i])
          /\ output[i].cw = CW_SHUTDOWN
          /\ output[i].target = input[i].actual
          /\ output[i].target # shared_states[i * 5 + 2]

----------------------------------------------------------------------------
----------------------------------------------------------------------------
\* C33: the drain that precedes the bootstrap removes every command it finds;
\* a command other than SET_VELOCITY, SET_ACCEL and SET_AXIS changes nothing
\* but the queue: no motor state, no configuration, no pending move, and
\* is_running stays TRUE, so a STOP_ALL taken there does not stop the worker
C33_InitDrainDiscards ==
    [][(/\ pc = "init_drain"
        /\ command_queue # <<>>
        /\ command_queue' = Tail(command_queue)
        /\ Head(command_queue).cmd \notin {"SET_VELOCITY", "SET_ACCEL", "SET_AXIS"})
          => /\ local_motor_states' = local_motor_states
             /\ slave_configs' = slave_configs
             /\ trajectory_commands' = trajectory_commands
             /\ sync_error_detected' = sync_error_detected
             /\ output' = output
             /\ is_running' = is_running
             /\ is_running'
             /\ pc' = "init_drain"]_vars

\* stop() is waiting for the worker, its STOP_ALL is gone from the queue, and
\* the worker is running on into the EtherCAT initialisation
C33_Witness ==
    /\ pc = "ec_init"
    /\ client_pc = "joining"
    /\ command_queue = <<>>
    /\ is_running

----------------------------------------------------------------------------
\* C34: when every axis whose statusword has the fault bit holds no
\* trajectory, the fault check leaves all motor states as they are; the
\* control step then writes Fault-Reset with the held target to a faulted
\* axis without a trajectory, and to an axis that holds a trajectory the
\* target its trajectory gives, also while another axis is faulted
C34_FaultedIdle(i) ==
    /\ C4_FaultBit(input[i].status)
    /\ ~HasTrajectory(local_motor_states[i])

----------------------------------------------------------------------------
\* C35: a published block never shows the moving flag 1 together with a
\* statusword whose fault bit is set; and when an axis that holds a
\* trajectory created in this cycle is faulted, the fault check of the same
\* cycle leaves no axis with a trajectory, so every axis of the batch is
\* published with the moving flag 0
C35_MovingImpliesNoFault ==
    /\ [](\A i \in Slaves :
            shared_states[i * 5 + 1] = 1 => ~C4_FaultBit(shared_states[i * 5]))
    /\ [][(/\ pc = "fault_check"
           /\ pc' = "control"
           /\ \E i \in Slaves :
                 /\ HasTrajectory(local_motor_states[i])
                 /\ Traj(local_motor_states[i]).start_time = now
                 /\ C4_FaultBit(input[i].status))
            => NoneMoving(local_motor_states')]_vars
    /\ [](pc = "sleep"
            => \A i \in Slaves :
                  /\ shared_states[i * 5] = input[i].status
                  /\ (shared_states[i * 5 + 1] = 1) = HasTrajectory(local_motor_states[i])
                  /\ i \in aborted => shared_states[i * 5 + 1] = 0)

\* the first cycle ends: both axes were given a trajectory in it, one of
\* them is faulted, the fault check aborted both, and both are published
\* as not moving
C35_Witness ==
    /\ pc = "sleep"
    /\ now = 0
    /\ ~sync_error_detected
    /\ aborted = Slaves
    /\ \E i \in Slaves : C4_FaultBit(shared_states[i * 5])
    /\ \E i \in Slaves : ~C4_FaultBit(shared_states[i * 5])
    /\ \A i \in Slaves : shared_states[i * 5 + 1] = 0

----------------------------------------------------------------------------
\* C36: no slot holds a trajectory while the sync-error flag is set, and at
\* the end of a cycle whose published flag is 1 every slave is published
\* with the moving flag 0
C36_FlagSetNoneMoving ==
    /\ sync_error_detected => NoneMoving(local_motor_states)
    /\ \A i \in Slaves :
          shared_states[i * 5 + 4] = 1 => shared_states[i * 5 + 1] = 0
    /\ pc = "sleep"
         => /\ \A i \in Slaves :
                  shared_states[i * 5 + 4] = (IF sync_error_detected THEN 1 ELSE 0)
            /\ (\E i \in Slaves : shared_states[i * 5 + 4] = 1)
                  => \A j \in Slaves : shared_states[j * 5 + 1] = 0

\* the second cycle, in which the flag was raised, ends: the axes that were
\* moving at the synchronisation check are published as stopped, with the flag
C36_Witness ==
    /\ pc = "sleep"
    /\ now = CycleTimeMs
    /\ sync_error_detected
    /\ aborted # {}
    /\ \A i \in Slaves : /\ shared_states[i * 5 + 4] = 1
                         /\ shared_states[i * 5 + 1] = 0

----------------------------------------------------------------------------
\* C37: a MOVE_TO_MM taken from the queue while the sync-error flag is set
\* leaves the queue and is kept nowhere: the pending batch, the motor states
\* and the flag stay as they are; no other command adds to the pending batch
\* (a RESET_SYNC_ERROR drained afterwards only lowers the flag); the batch
\* instantiation changes the trajectory of no slave without a pending move;
\* and a MOVE_TO_MM taken while the flag is clear is appended to the batch
C37_WorkerDrains ==
    /\ pc = "drain"
    /\ is_running
    /\ command_queue # <<>>
    /\ issued' = issued
    /\ drained' = <<Head(command_queue)>>

C37_GatedMoveLost ==
    [][/\ (/\ C37_WorkerDrains
           /\ Head(command_queue).cmd = "MOVE_TO_MM"
           /\ sync_error_detected)
            => /\ command_queue' = Tail(command_queue)
               /\ trajectory_commands' = trajectory_commands
               /\ local_motor_states' = local_motor_states
               /\ sync_error_detected'
       /\ (/\ C37_WorkerDrains
           /\ Head(command_queue).cmd # "MOVE_TO_MM")
            => trajectory_commands' = trajectory_commands
       /\ (/\ C37_WorkerDrains
           /\ Head(command_queue).cmd = "MOVE_TO_MM"
           /\ ~sync_error_detected)
            => trajectory_commands' =
                  Append(trajectory_commands,
                         [slave |-> Head(command_queue).slave,
                          mm |-> Head(command_queue).value])
       /\ (pc = "drain" /\ pc' # "drain")
            => \A i \in Slaves :
                  local_motor_states'[i].trajectory # local_motor_states[i].trajectory
                     => \E k \in DOMAIN trajectory_commands :
                           trajectory_commands[k].slave = i]_vars

\* a move-to has just been dropped under the flag while the reset that will
\* lower the flag is still behind it in the queue
C37_Witness ==
    /\ pc = "drain"
    /\ sync_error_detected
    /\ drained # <<>>
    /\ drained[1].cmd = "MOVE_TO_MM"
    /\ trajectory_commands = <<>>
    /\ command_queue # <<>>
    /\ Head(command_queue).cmd = "RESET_SYNC_ERROR"

----------------------------------------------------------------------------
\* C38: once STOP_ALL has been drained the worker takes no further command
\* from the queue, never reaches the process-data exchange, the safety pass,
\* the control section or the sleep of that cycle, publishes nothing more,
\* and the only frames it still writes carry the actual position: a
\* trajectory created for a move-to drained ahead of the STOP_ALL is never
\* interpolated
C38_AfterStopAll ==
    /\ [](~is_running => pc \notin LoopPositions \ {"drain"})
    /\ [][~is_running
            => /\ Len(command_queue') >= Len(command_queue)
               /\ trajectory_commands' \in {trajectory_commands, <<>>}
               /\ shared_states' = shared_states
               /\ is_running' = is_running
               /\ output' # output
                    => \A i \in Slaves : output'[i].target = input[i].actual
               /\ \A i \in Slaves :
                     /\ local_motor_states'[i].offset = local_motor_states[i].offset
                     /\ local_motor_states'[i].axis = local_motor_states[i].axis]_vars

\* the loop has been left on STOP_ALL: a command is still queued behind it
\* and a trajectory created in this drain waits in its slot, never to be run
C38_Witness ==
    /\ pc = "finally"
    /\ ~is_running
    /\ command_queue # <<>>
    /\ \E i \in Slaves : HasTrajectory(local_motor_states[i])

----------------------------------------------------------------------------
\* C39: when the control section of a cycle has published every slave, the
\* sync-error entries of all slaves are equal, so the flag read by the bus
\* object from the block of slave 0 is the flag read by every motor object
C39_FlagAgrees ==
    pc = "sleep"
      => /\ \A i, j \in Slaves : shared_states[i * 5 + 4] = shared_states[j * 5 + 4]
         /\ \A i \in Slaves :
               MotorSafe_has_sync_error(i) = EtherCATBusSafe_has_sync_error

\* the first cycle ends with the flag raised in it: every motor object and
\* the bus object read TRUE
C39_Witness ==
    /\ pc = "sleep"
    /\ now = 0
    /\ sync_error_detected
    /\ EtherCATBusSafe_has_sync_error
    /\ \A i \in Slaves : MotorSafe_has_sync_error(i)

====
